---- MODULE Spec2Model ----
(***************************************************************************)
(* Model of the pipelines runtime (src/main.py): plugin discovery and      *)
(* valve hydration, valve updates, and the chat-completion dispatcher with *)
(* its streaming adapter.                                                  *)
(*                                                                         *)
(* Python values are modelled as records [type, val] where val is a        *)
(* sequence of tokens; a Python str is the sequence of its tokens, so that *)
(* concatenation is \o and startswith("data:") is a test on the first      *)
(* token.                                                                  *)
(***************************************************************************)
EXTENDS Integers, Sequences, FiniteSets, TLC

VARIABLES
    \* -- the plugin directory and the valves directory
    listing,               \* os.listdir(PIPELINES_DIR), in listing order
    fs,                    \* VALVES_DIR: module name -> subfolder and valves.json
    \* -- the registries of main.py
    PIPELINE_MODULES,      \* pipeline id -> handle
    PIPELINE_NAMES,        \* pipeline id -> module name
    PIPELINES,             \* the module-level snapshot
    app_state_PIPELINES,   \* app.state.PIPELINES
    \* -- startup (on_startup / load_modules_from_directory)
    lpc,                   \* position of startup
    idx,                   \* index of the listing entry the current pass is at
    loaded_single_files,   \* the local set of load_modules_from_directory
    imported,    \* history: the units startup has tried to import
    raised,                \* history: <<module name, error kind>> of exceptions
                           \* that escaped _register_pipeline
    \* -- one completion request
    form,        \* form_data of the completion request: [model, stream]
    ret,         \* what the plugin's entry point will return when called
    res,         \* the local `res` of job / stream_content
    pc,          \* position of the request handler / of stream_content
    pos,         \* number of items of res already consumed
    out,         \* frames yielded so far by stream_content
    response,    \* what the handler returned to the HTTP layer
    \* -- valves requests
    last,        \* history: the last valves request and its outcome
    epoch,       \* number of restarts of the service
    \* -- the legacy layout
    legacy,      \* subdirectories of PIPELINES_DIR: name -> its contents
    mig,         \* history of the runs of _migrate_valves_to_new_dir
    \* -- one run of the blueprint's pipe
    bp,          \* its inputs and how far its generator has been run
    \* -- update_valves calls that can be in flight together
    calls        \* per call: where its coroutine is, what it validated,
                 \* what it answered

dirvars == <<listing, fs>>
regvars == <<PIPELINE_MODULES, PIPELINE_NAMES, PIPELINES>>
loadvars == <<lpc, idx, loaded_single_files, imported, raised>>
reqvars == <<form, ret, res, pc, pos, out, response>>
valvars == <<last, epoch>>
migvars == <<legacy, mig>>

vars == <<listing, fs, PIPELINE_MODULES, PIPELINE_NAMES, PIPELINES,
          app_state_PIPELINES, lpc, idx, loaded_single_files, imported, raised,
          form, ret, res, pc, pos, out, response, last, epoch,
          legacy, mig, bp, calls>>

----------------------------------------------------------------------------
(* Bounds *)

MaxItems == 3
MaxUnits == 2
MaxRestarts == 1
MaxRuns == 2
MaxLines == 3
MaxCalls == 2

----------------------------------------------------------------------------
(* Python values *)

PyStr(toks) == [type |-> "str", val |-> toks]
PyBytes(toks) == [type |-> "bytes", val |-> toks]
PyDict(name) == [type |-> "dict", val |-> <<name>>]
PyModel(name) == [type |-> "BaseModel", val |-> <<name>>]
PyNone == [type |-> "NoneType", val |-> <<>>]
NoValue == [type |-> "unset", val |-> <<>>]

\* the items a plugin's lazy sequence is drawn from
StatusEvent == PyDict("status")
ItemSet ==
    { PyStr(<<"A">>), PyStr(<<"B">>),
      PyStr(<<"data:", "X">>),
      PyBytes(<<"C">>),
      PyBytes(<<"data:", "Y">>),
      StatusEvent,
      PyDict("foo"),
      PyModel("obj") }

IsText(item) == item.type = "str"

\* an item the plugin makes from its configuration when it is produced:
\* yield f"{self.valves.model}"
ConfigItem == [type |-> "config", val |-> <<"model">>]

RECURSIVE SeqsUpTo(_, _)
SeqsUpTo(S, n) ==
    IF n = 0 THEN { <<>> }
    ELSE LET shorter == SeqsUpTo(S, n - 1)
         IN shorter \cup { Append(s, x) : s \in { t \in shorter : Len(t) = n - 1 }, x \in S }

\* shapes an entry point can return
Returned(kind, value, items) == [kind |-> kind, value |-> value, items |-> items]
NoRes == Returned("unset", NoValue, <<>>)
ReturnShapes ==
    { Returned("str", PyStr(<<"A">>), <<>>),
      Returned("str", PyStr(<<>>), <<>>),
      Returned("dict", PyDict("completion"), <<>>),
      Returned("BaseModel", PyModel("completion"), <<>>),
      Returned("NoneType", PyNone, <<>>) }
    \cup { Returned("generator", NoValue, s) : s \in SeqsUpTo(ItemSet, MaxItems) }
    \cup { Returned("iterator", NoValue, s) : s \in SeqsUpTo(ItemSet, MaxItems) }

\* isinstance(res, str), isinstance(res, Iterator), isinstance(res, Generator)
IsStr(r) == r.kind = "str"
IsIterator(r) == r.kind \in {"generator", "iterator"}
IsGenerator(r) == r.kind = "generator"

\* an exception leaving the plugin: `raise Exception("boom")` in pipe, or in
\* the body of the generator it returned, in place of the next item
ErrorMessage == <<"boom">>
Raise == [type |-> "raise", val |-> ErrorMessage]
RaisingShapes ==
    { Returned("raises", NoValue, <<>>) }
    \cup { Returned("generator", NoValue, Append(s, Raise)) :
              s \in SeqsUpTo(ItemSet, MaxItems - 1) }
    \cup { Returned("iterator", NoValue, Append(s, Raise)) :
              s \in SeqsUpTo(ItemSet, MaxItems - 1) }

\* pipe(...) itself raises
PipeRaises(r) == r.kind = "raises"
\* consuming the sequence to its end raises
RaisesWhenConsumed(r) ==
    /\ IsIterator(r)
    /\ \E k \in 1..Len(r.items) : r.items[k] = Raise
\* the items delivered before the sequence ends or raises
Delivered(r) ==
    IF RaisesWhenConsumed(r) THEN SubSeq(r.items, 1, Len(r.items) - 1)
    ELSE r.items


----------------------------------------------------------------------------
(* Conversions *)

\* json.dumps(d) / m.model_dump_json(): a JSON text of the object
JsonDumps(v) == <<"{">> \o v.val \o <<"}">>

\* str(x) as used by the f-string f"{message}{stream}"
Str(v) ==
    CASE v.type = "str" -> v.val
      [] v.type = "bytes" -> <<"b'">> \o v.val \o <<"'">>
      [] v.type = "dict" -> <<"{'">> \o v.val \o <<"'}">>
      [] v.type = "BaseModel" -> <<"repr(">> \o v.val \o <<")">>
      [] OTHER -> <<"None">>

StartsWithData(v) == v.type = "str" /\ Len(v.val) > 0 /\ v.val[1] = "data:"

----------------------------------------------------------------------------
(* Frames written to the event stream *)

EmptyDelta == [type |-> "empty", val |-> <<>>]

\* f"data: {json.dumps(stream_message_template(model, message))}\n\n"
stream_message_template(model, message) ==
    [frame |-> "chunk", model |-> model, delta |-> message,
     finish |-> "null", line |-> <<>>]

\* f"{line}\n\n" for a line that already starts with "data:"
RawFrame(line) ==
    [frame |-> "raw", model |-> "", delta |-> EmptyDelta,
     finish |-> "null", line |-> line.val]

finish_message(model) ==
    [frame |-> "chunk", model |-> model, delta |-> EmptyDelta,
     finish |-> "stop", line |-> <<>>]

DoneFrame ==
    [frame |-> "done", model |-> "", delta |-> EmptyDelta,
     finish |-> "null", line |-> <<"data:", "[DONE]">>]

\* the body of `for line in res` for one item
Reframe(item) ==
    IF item.type = "BaseModel" THEN PyStr(<<"data:">> \o JsonDumps(item))
    ELSE IF item.type = "dict" THEN PyStr(<<"data:">> \o JsonDumps(item))
    ELSE item

Decode(line) == IF line.type = "bytes" THEN PyStr(line.val) ELSE line

\* StreamFrame without line.decode("utf-8"): bytes stay bytes
StreamFrameNoDecode(model, item) ==
    LET line == Reframe(item)
    IN IF StartsWithData(line) THEN RawFrame(line)
       ELSE stream_message_template(model, line)

\* StreamFrame without the startswith("data:") test: every item is wrapped
StreamFrameWrapAll(model, item) ==
    stream_message_template(model, Decode(Reframe(item)))

StreamFrame(model, item) ==
    LET line == Decode(Reframe(item))
    IN IF StartsWithData(line) THEN RawFrame(line)
       ELSE stream_message_template(model, line)

----------------------------------------------------------------------------
(* Responses *)

NoResponse ==
    [status |-> 0, body |-> "none", model |-> "", content |-> <<>>,
     finish |-> "", object |-> NoValue]

NotFound ==
    [status |-> 404, body |-> "error", model |-> "", content |-> <<>>,
     finish |-> "", object |-> NoValue]

StreamingResponse ==
    [status |-> 200, body |-> "event-stream", model |-> "", content |-> <<>>,
     finish |-> "", object |-> NoValue]

\* a structured result put into a synthetic completion as its content
ObjectResponseWrapped(obj) ==
    [status |-> 200, body |-> "chat.completion", model |-> "",
     content |-> Str(obj), finish |-> "stop", object |-> NoValue]

\* `return res` / `return res.model_dump()`: the object is the response
ObjectResponse(obj) ==
    [status |-> 200, body |-> "object", model |-> "", content |-> <<>>,
     finish |-> "", object |-> obj]

Completion(model, message) ==
    [status |-> 200, body |-> "chat.completion", model |-> model,
     content |-> message, finish |-> "stop", object |-> NoValue]

\* an exception that leaves the handler: no handler of the application
\* catches it and the HTTP layer answers 500
ServerError ==
    [status |-> 500, body |-> "error", model |-> "", content |-> <<>>,
     finish |-> "", object |-> NoValue]

\* the loop `for stream in res: message = f"{message}{stream}"`
RECURSIVE Accumulate(_, _)
Accumulate(message, items) ==
    IF items = <<>> THEN message
    ELSE Accumulate(message \o Str(Head(items)), Tail(items))

\* the else-branch of job for stream=false, from `message = ""` on
NonStreamMessage(r) ==
    LET m0 == IF IsStr(r) THEN r.value.val ELSE <<>>
    IN IF IsGenerator(r) THEN Accumulate(m0, r.items) ELSE m0

----------------------------------------------------------------------------
(* Valves: the configuration schema of a plugin *)

\* class Valves(BaseModel) of the pdf2pdf pipeline: model: str, batch_size: int
Fields == {"model", "batch_size"}
FieldType(k) == IF k = "model" THEN "str" ELSE "int"
Defaults == [model |-> "m0", batch_size |-> "i25"]

\* JSON values: strings "m0", "m1", the numeric string "s7", the integers
\* i25 and i7, and null
StrValues == {"m0", "m1", "s7"}
IntValues == {"i25", "i7"}
Invalid == "INVALID"

\* validation of one field value (pydantic, lax mode): an int field accepts
\* an integer or a numeric string, which it converts; a str field accepts
\* strings only
Coerce(k, v) ==
    IF FieldType(k) = "str"
    THEN IF v \in StrValues THEN v ELSE Invalid
    ELSE IF v \in IntValues THEN v
         ELSE IF v = "s7" THEN "i7"
         ELSE Invalid

EmptyDict == [k \in {} |-> ""]

\* {**a, **b}
Merge(a, b) ==
    [k \in (DOMAIN a) \cup (DOMAIN b) |-> IF k \in DOMAIN b THEN b[k] ELSE a[k]]

\* ValvesModel(**kwargs): unknown keys are ignored, absent fields take their
\* defaults, a value of the wrong type is a ValidationError
\* a schema declared with extra="forbid": an unknown key fails validation
ValvesModelForbidExtra(kwargs) ==
    [ok |-> /\ DOMAIN kwargs \subseteq Fields
            /\ \A k \in Fields \cap DOMAIN kwargs : Coerce(k, kwargs[k]) # Invalid,
     valves |-> [k \in Fields |->
                   IF k \in DOMAIN kwargs THEN Coerce(k, kwargs[k])
                   ELSE Defaults[k]]]

\* ValvesModel(**kwargs) of a schema with the default extra="ignore"
ValvesModel(kwargs) ==
    [ok |-> \A k \in Fields \cap DOMAIN kwargs : Coerce(k, kwargs[k]) # Invalid,
     valves |-> [k \in Fields |->
                   IF k \in DOMAIN kwargs THEN Coerce(k, kwargs[k])
                   ELSE Defaults[k]]]

\* valves.model_dump()
model_dump(valves) == [k \in Fields |-> valves[k]]

\* the item the generator body yields with the valves it finds: a copy of
\* the valves made in __init__ is what it reads
ProducedFromDefaults(item, pipeline) ==
    IF item.type = "config" THEN PyStr(<<Defaults[item.val[1]]>>) ELSE item

\* the item the generator body yields, reading self.valves when it runs
Produced(item, pipeline) ==
    IF item.type = "config" THEN PyStr(<<pipeline.valves[item.val[1]]>>)
    ELSE item

ProducedAll(r, pipeline) ==
    [r EXCEPT !.items = [k \in 1..Len(r.items) |-> Produced(r.items[k], pipeline)]]

----------------------------------------------------------------------------
(* The plugin directory and the valves directory *)

Names == {"a", "b"}

\* what importing and instantiating a unit does, and what its Pipeline
\* declares: an id attribute ("" when it has none), a valves attribute.
\* An entry also says what the on_startup and on_shutdown methods of the
\* Pipeline do: "none" (it has no such method), "returns" or "raises"
Behaviours ==
    { [load |-> "ok", id_attr |-> "", hasValves |-> TRUE],
      [load |-> "ok", id_attr |-> "", hasValves |-> FALSE],
      [load |-> "ok", id_attr |-> "b", hasValves |-> TRUE],
      [load |-> "noclass", id_attr |-> "", hasValves |-> FALSE],
      [load |-> "raises", id_attr |-> "", hasValves |-> FALSE] }

\* X.py is [name X, form "file"]; X/__init__.py is [name X, form "pkg"]
Entries ==
    { [name |-> n, form |-> f, load |-> b.load, id_attr |-> b.id_attr,
       hasValves |-> b.hasValves, renames |-> FALSE,
       on_startup |-> "none", on_shutdown |-> "none"] :
        n \in Names, f \in {"file", "pkg"}, b \in Behaviours }

Listings ==
    { s \in SeqsUpTo(Entries, MaxUnits) :
        \A i \in 1..Len(s) : \A j \in 1..Len(s) :
            (i # j) => (s[i].name # s[j].name \/ s[i].form # s[j].form) }

\* VALVES_DIR/<name>: does the subfolder exist, the state of valves.json
\* ("absent", parsable "json" with record rec, or "corrupt"), and whether
\* the operating system refuses to create ("nocreate") or to read ("noread")
FsEntry(dir, file, rec, io) == [dir |-> dir, file |-> file, rec |-> rec, io |-> io]

FsStates ==
    { FsEntry(FALSE, "absent", EmptyDict, "ok"),
      FsEntry(TRUE, "absent", EmptyDict, "ok"),
      FsEntry(TRUE, "json", [k \in {"model"} |-> "m1"], "ok"),
      FsEntry(TRUE, "json", [k \in {"batch_size"} |-> "m1"], "ok"),
      FsEntry(TRUE, "json", [k \in {"batch_size"} |-> "s7"], "ok"),
      FsEntry(TRUE, "corrupt", EmptyDict, "ok"),
      FsEntry(FALSE, "absent", EmptyDict, "nocreate"),
      FsEntry(TRUE, "json", [k \in {"model"} |-> "m1"], "noread") }

----------------------------------------------------------------------------
(* Registration *)

\* Pipeline(): the handle a successfully imported unit instantiates.
\* display is its name attribute ("" when it has none); a unit whose hook
\* renames it (self.name = self.valves.<str field>) also sets it in __init__
NewHandle(e) ==
    [module |-> e.name, form |-> e.form, id_attr |-> e.id_attr,
     hasValves |-> e.hasValves, valves |-> Defaults,
     renames |-> e.renames,
     on_startup |-> e.on_startup, on_shutdown |-> e.on_shutdown,
     display |-> IF e.renames THEN Defaults["model"] ELSE ""]

\* _register_pipeline merging the other way round, {**valves_json,
\* **pipeline.valves.model_dump()}: the defaults win over the file
HydrateDefaultsWin(pipeline, f) ==
    LET f1 == IF ~f.dir /\ f.io # "nocreate" THEN [f EXCEPT !.dir = TRUE] ELSE f
        f2 == IF f1.dir /\ f1.file = "absent" /\ f1.io # "nocreate"
              THEN [f1 EXCEPT !.file = "json", !.rec = EmptyDict] ELSE f1
        vm == ValvesModel(Merge(f2.rec, model_dump(pipeline.valves)))
    IN  IF ~f1.dir THEN [err |-> "io", fs |-> f1, valves |-> pipeline.valves]
        ELSE IF f2.file = "absent"
             THEN [err |-> "io", fs |-> f2, valves |-> pipeline.valves]
        ELSE IF f2.io = "noread"
             THEN [err |-> "io", fs |-> f2, valves |-> pipeline.valves]
        ELSE IF f2.file = "corrupt"
             THEN [err |-> "json", fs |-> f2, valves |-> pipeline.valves]
        ELSE IF ~pipeline.hasValves
             THEN [err |-> "none", fs |-> f2, valves |-> pipeline.valves]
        ELSE IF ~vm.ok
             THEN [err |-> "schema", fs |-> f2, valves |-> pipeline.valves]
        ELSE [err |-> "none", fs |-> f2, valves |-> vm.valves]

\* _register_pipeline up to the registry update: the exception that escapes
\* it ("none" when it returns), the subfolder afterwards, and the valves of
\* the pipeline afterwards
Hydrate(pipeline, f) ==
    LET f1 == IF ~f.dir /\ f.io # "nocreate" THEN [f EXCEPT !.dir = TRUE] ELSE f
        f2 == IF f1.dir /\ f1.file = "absent" /\ f1.io # "nocreate"
              THEN [f1 EXCEPT !.file = "json", !.rec = EmptyDict] ELSE f1
        vm == ValvesModel(Merge(model_dump(pipeline.valves), f2.rec))
    IN  IF ~f1.dir THEN [err |-> "io", fs |-> f1, valves |-> pipeline.valves]
        ELSE IF f2.file = "absent"
             THEN [err |-> "io", fs |-> f2, valves |-> pipeline.valves]
        ELSE IF f2.io = "noread"
             THEN [err |-> "io", fs |-> f2, valves |-> pipeline.valves]
        ELSE IF f2.file = "corrupt"
             THEN [err |-> "json", fs |-> f2, valves |-> pipeline.valves]
        ELSE IF ~pipeline.hasValves
             THEN [err |-> "none", fs |-> f2, valves |-> pipeline.valves]
        ELSE IF ~vm.ok
             THEN [err |-> "schema", fs |-> f2, valves |-> pipeline.valves]
        ELSE [err |-> "none", fs |-> f2, valves |-> vm.valves]

\* pipeline.id if hasattr(pipeline, "id") else module_name
PipelineId(pipeline) ==
    IF pipeline.id_attr # "" THEN pipeline.id_attr ELSE pipeline.module

\* a registry assignment that starts from an empty dict: the identifiers
\* registered before are gone
PutFresh(f, k, v) == [x \in {k} |-> v]

\* d[k] = v on a dict
Put(f, k, v) == [x \in (DOMAIN f) \cup {k} |-> IF x = k THEN v ELSE f[x]]

\* pipeline.name if hasattr(pipeline, "name") else pipeline_id
NameOf(pipeline, id) == IF pipeline.display # "" THEN pipeline.display ELSE id

\* the entry keeps of "valves" only what the listing uses: is it None
get_all_pipelines(modules) ==
    [id \in DOMAIN modules |->
        [id |-> id, module |-> id, name |-> NameOf(modules[id], id),
         valves |-> modules[id].hasValves]]

\* the middleware check_url: app.state.PIPELINES = get_all_pipelines()
check_url == get_all_pipelines(PIPELINE_MODULES)

\* no valves request has been made yet
NoFile == [dir |-> FALSE, file |-> "absent", rec |-> EmptyDict, io |-> "ok"]

NoCall ==
    [op |-> "none", id |-> "", payload |-> EmptyDict, status |-> 0,
     before |-> Defaults, after |-> Defaults, wrote |-> EmptyDict, epoch |-> 0,
     body |-> "none", write |-> "none", hook |-> "not_called",
     file_before |-> NoFile, hook_saw |-> [valves |-> Defaults, file |-> NoFile],
     data |-> {}]

\* _register_pipeline with the registry update moved ahead of the hydration:
\* the handle is in the registry whatever the hydration then does
RegisterBeforeHydrate(e, next) ==
    LET pipeline == NewHandle(e)
        h == Hydrate(pipeline, fs[e.name])
    IN  /\ fs' = [fs EXCEPT ![e.name] = h.fs]
        /\ PIPELINE_MODULES' =
             Put(PIPELINE_MODULES, PipelineId(pipeline),
                 [pipeline EXCEPT !.valves = h.valves])
        /\ PIPELINE_NAMES' =
             Put(PIPELINE_NAMES, PipelineId(pipeline), e.name)
        /\ IF h.err = "none"
           THEN /\ lpc' = next
                /\ raised' = raised
           ELSE /\ lpc' = "crashed"
                /\ raised' = raised \cup { <<e.name, h.err>> }

\* _register_pipeline(pipeline, module_name) as a step of startup: either it
\* returns and startup goes on at `next`, or its exception ends startup
Register(e, next) ==
    LET pipeline == NewHandle(e)
        h == Hydrate(pipeline, fs[e.name])
    IN  /\ fs' = [fs EXCEPT ![e.name] = h.fs]
        /\ IF h.err = "none"
           THEN /\ PIPELINE_MODULES' =
                     Put(PIPELINE_MODULES, PipelineId(pipeline),
                         [pipeline EXCEPT !.valves = h.valves])
                /\ PIPELINE_NAMES' =
                     Put(PIPELINE_NAMES, PipelineId(pipeline), e.name)
                /\ lpc' = next
                /\ raised' = raised
           ELSE /\ lpc' = "crashed"
                /\ raised' = raised \cup { <<e.name, h.err>> }
                /\ UNCHANGED <<PIPELINE_MODULES, PIPELINE_NAMES>>

----------------------------------------------------------------------------
(* The blueprint pipeline (pipelines/blueprint.py) *)

\* body["__openwebui"] has a base_url and a token, each missing ("none"),
\* empty or given; "slash" is a base_url that rstrip("/") leaves empty

\* the test `if not (base_url and token)` looking at the token only
UsableTokenOnly(ctx) == ctx.token = "tok"

\* base_url and token
Usable(ctx) == ctx.base_url = "url" /\ ctx.token = "tok"

\* what a run of the generator does, in order: the items it yields, the
\* HTTP calls it makes, and how it ends
Ev(ev, kind, text, done) == [ev |-> ev, kind |-> kind, text |-> text, done |-> done]
YieldText(toks) == Ev("yield", "text", toks, FALSE)
emit_status(description, done) == Ev("yield", "status", <<description>>, done)
Returns == Ev("end", "return", <<>>, FALSE)
Raises == Ev("end", "raise", <<>>, FALSE)

\* GET /api/v1/files/: the request fails (an exception or an HTTP error),
\* or r.json() is a list of n file objects, or JSON of another shape: null,
\* or a list of n strings
ListOutcome(kind, n) == [kind |-> kind, n |-> n]
ListOutcomes ==
    { ListOutcome("fails", 0), ListOutcome("null", 0), ListOutcome("strings", 1),
      ListOutcome("list", 0), ListOutcome("list", 1), ListOutcome("list", 11) }

\* _list_files: [] when anything raised, else r.json()
list_files(o) == IF o.kind = "fails" THEN ListOutcome("list", 0) ELSE o

\* pipe from `yield f"**Your files** ({len(files)})"` to `yield "\n"`
ListSection(files) ==
    IF files.kind = "null" THEN <<Raises>>
    ELSE <<YieldText(<<"**Your files**", ToString(files.n)>>)>>
         \o (IF files.n = 0 THEN <<YieldText(<<"- _(none)_">>)>>
             ELSE IF files.kind = "strings" THEN <<Raises>>
             ELSE [i \in 1..(IF files.n < 10 THEN files.n ELSE 10) |->
                     YieldText(<<"-", "name">>)]
                  \o (IF files.n > 10
                      THEN <<YieldText(<<"- ... and", ToString(files.n - 10), "more">>)>>
                      ELSE <<>>))
         \o (IF files.kind = "strings" THEN <<>> ELSE <<YieldText(<<"\n">>)>>)

\* the lines r.iter_lines gives: an empty line, a chunk with content "H" or
\* "W", a chunk with no content, a line that is not JSON, "data: [DONE]"
Contents == {"H", "W"}

\* POST /api/chat/completions: post or raise_for_status raises, or the
\* response gives lines; breaks: iter_lines raises after the last of them
DefaultModelOutcome ==
    [post |-> "ok", lines |-> <<"H", "W", "done">>, breaks |-> FALSE]
ModelOutcomes ==
    { [post |-> "fails", lines |-> <<>>, breaks |-> FALSE] }
    \cup { [post |-> "ok", lines |-> l, breaks |-> b] : l \in SeqsUpTo(Contents \cup {"blank", "nocontent", "garbage", "done"},
                                               MaxLines), b \in BOOLEAN }

\* the loop over r.iter_lines: the contents yielded until [DONE]
RECURSIVE ReadLines(_)
ReadLines(lines) ==
    IF lines = <<>> \/ Head(lines) = "done" THEN <<>>
    ELSE IF Head(lines) \in Contents THEN <<Head(lines)>> \o ReadLines(Tail(lines))
    ELSE ReadLines(Tail(lines))

\* assistant_reply after the try statement
assistant_reply(m) == IF m.post = "fails" THEN <<>> ELSE ReadLines(m.lines)

\* pipe from `yield emit_status(f"Calling ...")` to `yield "\n\n"`
ModelSection(model, m) ==
    << emit_status("Calling", FALSE), YieldText(<<"**", model, "** says">>),
       Ev("call", "model", <<model>>, FALSE) >>
    \o (IF m.post = "fails" THEN <<YieldText(<<"Model call failed">>)>>
        ELSE [i \in 1..Len(ReadLines(m.lines)) |-> YieldText(<<ReadLines(m.lines)[i]>>)]
             \o \* iter_lines raises unless `break` has left the loop before
             (IF m.breaks /\ ~\E i \in 1..Len(m.lines) : m.lines[i] = "done"
              THEN <<YieldText(<<"Model call failed">>)>> ELSE <<>>))
    \o <<YieldText(<<"\n\n">>)>>

\* f"User: {user_message}\n\nAssistant ({model}):\n{assistant_reply}\n"
Transcript(model, reply) == <<"User:", "hello", "Assistant", model>> \o reply

\* pipe from `yield emit_status("Saving transcript")` to its end; upload:
\* does _upload_transcript return a URL ("ok") or None ("fails")
UploadSection(model, reply, upload) ==
    << emit_status("Saving transcript", FALSE),
       Ev("call", "upload", Transcript(model, reply), FALSE),
       IF upload = "ok" THEN YieldText(<<"**Transcript saved**">>)
       ELSE YieldText(<<"Failed to save transcript.">>),
       emit_status("Done", TRUE),
       Returns >>

\* pipe(...) run to its end with self.valves.model = model
Pipe(ctx, env, model) ==
    IF ~Usable(ctx)
    THEN << YieldText(<<"Open WebUI callback not available.">>),
            YieldText(<<"Send requests through Open WebUI">>),
            Returns >>
    ELSE LET head == << emit_status("Listing your files", FALSE), Ev("call", "list", <<>>, FALSE) >>
                     \o ListSection(list_files(env.list))
         IN IF head[Len(head)] = Raises THEN head
            ELSE head \o ModelSection(model, env.model)
                      \o UploadSection(model, assistant_reply(env.model), env.upload)

NoBlueprintRun ==
    bp = [ctx |-> [base_url |-> "none", token |-> "none"],
          env |-> [list |-> ListOutcome("list", 0), model |-> DefaultModelOutcome,
                   upload |-> "ok"],
          n |-> 0, closed |-> FALSE]

\* an update_valves call that has not arrived
IdleCall ==
    [pc |-> "idle", payload |-> EmptyDict, valves |-> Defaults, status |-> 0,
     returned |-> Defaults]
NoCallInFlight == calls = [r \in 1..MaxCalls |-> IdleCall]

\* the run of this state and what the generator has done of it so far
Trace == Pipe(bp.ctx, bp.env, Defaults["model"])
Executed == SubSeq(Trace, 1, bp.n)
Exhausted == bp.n = Len(Trace)

----------------------------------------------------------------------------
(* The legacy layout and its migration *)

\* the entries of PIPELINES_DIR that can be directories
MigEntries == Names \cup {"failed", ".git"}

\* a subdirectory of PIPELINES_DIR: its valves.json ("absent", "json" or
\* "corrupt") with the record it holds, whether it has an __init__.py, other
\* files, a __pycache__
LegacyDir(dir, valves, rec, init, other, pycache) ==
    [dir |-> dir, valves |-> valves, rec |-> rec, init |-> init,
     other |-> other, pycache |-> pycache]
NoLegacyDir == LegacyDir(FALSE, "absent", EmptyDict, FALSE, FALSE, FALSE)
LegacyRec == [k \in {"model"} |-> "m1"]
LegacyStates ==
    { NoLegacyDir,
      LegacyDir(TRUE, "json", LegacyRec, FALSE, FALSE, FALSE),
      LegacyDir(TRUE, "json", LegacyRec, FALSE, FALSE, TRUE),
      LegacyDir(TRUE, "json", LegacyRec, TRUE, FALSE, TRUE),
      LegacyDir(TRUE, "json", LegacyRec, FALSE, TRUE, FALSE),
      LegacyDir(TRUE, "corrupt", EmptyDict, FALSE, FALSE, FALSE),
      LegacyDir(TRUE, "absent", EmptyDict, FALSE, TRUE, FALSE),
      LegacyDir(TRUE, "absent", EmptyDict, FALSE, FALSE, FALSE) }
SkippedStates ==
    { NoLegacyDir, LegacyDir(TRUE, "json", LegacyRec, FALSE, FALSE, FALSE) }

\* the subfolders of VALVES_DIR before the migration
MigFsStates ==
    { FsEntry(FALSE, "absent", EmptyDict, "ok"),
      FsEntry(FALSE, "absent", EmptyDict, "nocreate"),
      FsEntry(TRUE, "absent", EmptyDict, "ok"),
      FsEntry(TRUE, "json", [k \in {"model"} |-> "m0"], "ok") }

\* no legacy directory and no run of the migration
NoMigration ==
    /\ legacy = [n \in MigEntries |-> NoLegacyDir]
    /\ mig = [runs |-> 0, order |-> <<>>, before |-> <<>>, first |-> <<>>]

\* entry.startswith(".") or entry == "failed"
Skipped(entry) == entry = ".git" \/ entry = "failed"

\* the place a legacy file is moved to: VALVES_DIR/<entry>/valves.json
Moved(f, e) == [f EXCEPT !.dir = TRUE, !.file = e.valves, !.rec = e.rec]

\* the body of the loop of _migrate_valves_to_new_dir moving the legacy file
\* whether or not the new place has a file already
MigrateEntryOverwrites(entry, st) ==
    LET e == st.legacy[entry]
        f == st.fs[entry]
        gone == [e EXCEPT !.valves = "absent", !.rec = EmptyDict]
    IN  IF st.crashed \/ ~e.dir \/ Skipped(entry) THEN st
        ELSE IF e.valves = "absent" THEN st
        ELSE IF ~f.dir /\ f.io = "nocreate"
             THEN [st EXCEPT !.crashed = TRUE]
        ELSE LET e2 == IF ~gone.init /\ ~gone.other THEN NoLegacyDir ELSE gone
             IN [st EXCEPT !.legacy[entry] = e2,
                           !.fs = [st.fs EXCEPT ![entry] = Moved(f, e)]]

\* the body of the loop of _migrate_valves_to_new_dir with a copy in place
\* of the move: the legacy file stays where it was
MigrateEntryCopies(entry, st) ==
    LET e == st.legacy[entry]
        f == st.fs[entry]
        gone == [e EXCEPT !.valves = "absent", !.rec = EmptyDict]
    IN  IF st.crashed \/ ~e.dir \/ Skipped(entry) THEN st
        ELSE IF e.valves = "absent" THEN st
        ELSE IF ~(f.dir /\ f.file # "absent") /\ ~f.dir /\ f.io = "nocreate"
             THEN [st EXCEPT !.crashed = TRUE]
        ELSE LET moved == ~(f.dir /\ f.file # "absent")
                 e1 == IF moved THEN e ELSE gone
                 fs1 == IF moved
                        THEN [st.fs EXCEPT ![entry] = Moved(f, e)]
                        ELSE st.fs
                 e2 == IF ~e1.init /\ ~e1.other /\ e1.valves = "absent"
                       THEN NoLegacyDir ELSE e1
             IN [st EXCEPT !.legacy[entry] = e2, !.fs = fs1]

\* the body of the loop of _migrate_valves_to_new_dir for one entry of
\* os.listdir(PIPELINES_DIR); st.crashed: an exception has ended the run
MigrateEntry(entry, st) ==
    LET e == st.legacy[entry]
        f == st.fs[entry]
        gone == [e EXCEPT !.valves = "absent", !.rec = EmptyDict]
    IN  IF st.crashed \/ ~e.dir \/ Skipped(entry) THEN st
        ELSE IF e.valves = "absent" THEN st
        ELSE IF ~(f.dir /\ f.file # "absent") /\ ~f.dir /\ f.io = "nocreate"
             THEN [st EXCEPT !.crashed = TRUE]
        ELSE LET moved == ~(f.dir /\ f.file # "absent")
                 e1 == gone
                 fs1 == IF moved
                        THEN [st.fs EXCEPT ![entry] = Moved(f, e)]
                        ELSE st.fs
                 e2 == IF ~e1.init /\ ~e1.other /\ e1.valves = "absent"
                       THEN NoLegacyDir ELSE e1
             IN [st EXCEPT !.legacy[entry] = e2, !.fs = fs1]

\* for entry in os.listdir(PIPELINES_DIR)
RECURSIVE Migrate(_, _)
Migrate(order, st) ==
    IF order = <<>> THEN st
    ELSE Migrate(Tail(order), MigrateEntry(Head(order), st))

\* the orders in which os.listdir gives the entries
ListingOrders ==
    { <<"a", "b", "failed", ".git">>, <<".git", "failed", "b", "a">> }

InitMigrate ==
    /\ NoBlueprintRun
    /\ NoCallInFlight
    /\ listing = <<>>
    /\ fs \in [Names -> MigFsStates]
    /\ legacy \in { l \in [MigEntries -> LegacyStates] :
                      \A n \in MigEntries \ Names : l[n] \in SkippedStates }
    /\ \E o \in ListingOrders :
          mig = [runs |-> 0, order |-> o, before |-> <<legacy, fs>>,
                 first |-> <<>>]
    /\ PIPELINE_MODULES = EmptyDict
    /\ PIPELINE_NAMES = EmptyDict
    /\ PIPELINES = EmptyDict
    /\ app_state_PIPELINES = EmptyDict
    /\ lpc = "import"
    /\ idx = 1
    /\ loaded_single_files = {}
    /\ imported = {}
    /\ raised = {}
    /\ form = [model |-> "", stream |-> FALSE]
    /\ ret = NoRes
    /\ res = NoRes
    /\ pc = "idle"
    /\ pos = 0
    /\ out = <<>>
    /\ response = NoResponse
    /\ last = NoCall
    /\ epoch = 0

\* _migrate_valves_to_new_dir(), run when main.py is imported
RunMigration ==
    /\ lpc = "import"
    /\ mig.runs < MaxRuns
    /\ LET r == Migrate(mig.order,
                        [legacy |-> legacy, fs |-> fs, crashed |-> FALSE])
       IN /\ legacy' = r.legacy
          /\ fs' = r.fs
          /\ mig' = [mig EXCEPT !.runs = mig.runs + 1,
                                !.first = IF mig.runs = 0
                                          THEN <<r.legacy, r.fs>>
                                          ELSE mig.first]
    /\ UNCHANGED <<calls, bp, listing, regvars, app_state_PIPELINES, loadvars,
                   reqvars, valvars>>

SpecMigrate == InitMigrate /\ [][RunMigration]_vars

----------------------------------------------------------------------------
(* Startup: on_startup -> load_modules_from_directory *)

IdleRequest ==
    /\ form = [model |-> "", stream |-> FALSE]
    /\ ret = NoRes
    /\ res = NoRes
    /\ pc = "idle"
    /\ pos = 0
    /\ out = <<>>
    /\ response = NoResponse

InitLoad ==
    /\ NoMigration
    /\ NoBlueprintRun
    /\ NoCallInFlight
    /\ listing \in Listings
    /\ fs \in [Names -> FsStates]
    /\ PIPELINE_MODULES = EmptyDict
    /\ PIPELINE_NAMES = EmptyDict
    /\ PIPELINES = EmptyDict
    /\ app_state_PIPELINES = EmptyDict
    /\ lpc = "pass1"
    /\ idx = 1
    /\ loaded_single_files = {}
    /\ imported = {}
    /\ raised = {}
    /\ IdleRequest
    /\ last = NoCall
    /\ epoch = 0

\* pass 1, one entry of os.listdir(directory)
Pass1Step ==
    /\ lpc = "pass1"
    /\ idx <= Len(listing)
    /\ idx' = idx + 1
    /\ LET e == listing[idx]
       IN IF e.form = "file" /\ e.load = "ok"
          THEN /\ Register(e, "pass1")
               /\ loaded_single_files' =
                    IF lpc' = "crashed" THEN loaded_single_files
                    ELSE loaded_single_files \cup {e.name}
          ELSE UNCHANGED <<fs, PIPELINE_MODULES, PIPELINE_NAMES, lpc,
                           raised, loaded_single_files>>
    \* load_module_from_path runs for every .py file
    /\ imported' = IF listing[idx].form = "file"
                   THEN imported \cup { <<listing[idx].name, "file">> }
                   ELSE imported
    /\ UNCHANGED <<calls, bp, migvars, listing, PIPELINES, app_state_PIPELINES, reqvars, valvars>>

Pass1Done ==
    /\ lpc = "pass1"
    /\ idx > Len(listing)
    /\ lpc' = "pass2"
    /\ idx' = 1
    /\ UNCHANGED <<calls, bp, migvars, dirvars, regvars, app_state_PIPELINES, loaded_single_files, imported,
                   raised, reqvars, valvars>>

\* pass 2 without the test `if entry in loaded_single_files: continue`
Pass2StepNoClaimCheck ==
    /\ lpc = "pass2"
    /\ idx <= Len(listing)
    /\ idx' = idx + 1
    /\ LET e == listing[idx]
       IN IF e.form = "pkg" /\ e.load = "ok"
          THEN Register(e, "pass2")
          ELSE UNCHANGED <<fs, PIPELINE_MODULES, PIPELINE_NAMES, lpc, raised>>
    \* load_package_from_directory runs for every package
    /\ imported' = IF listing[idx].form = "pkg"
                   THEN imported \cup { <<listing[idx].name, "pkg">> }
                   ELSE imported
    /\ UNCHANGED <<calls, bp, migvars, listing, PIPELINES, app_state_PIPELINES,
                   loaded_single_files, reqvars, valvars>>

\* pass 2, one entry of os.listdir(directory)
Pass2Step ==
    /\ lpc = "pass2"
    /\ idx <= Len(listing)
    /\ idx' = idx + 1
    /\ LET e == listing[idx]
       IN IF e.form = "pkg" /\ e.name \notin loaded_single_files /\ e.load = "ok"
          THEN Register(e, "pass2")
          ELSE UNCHANGED <<fs, PIPELINE_MODULES, PIPELINE_NAMES, lpc, raised>>
    \* load_package_from_directory runs for every package not claimed
    /\ imported' = IF listing[idx].form = "pkg"
                        /\ listing[idx].name \notin loaded_single_files
                   THEN imported \cup { <<listing[idx].name, "pkg">> }
                   ELSE imported
    /\ UNCHANGED <<calls, bp, migvars, listing, PIPELINES, app_state_PIPELINES,
                   loaded_single_files, reqvars, valvars>>

\* the end of load_modules_from_directory: PIPELINES = get_all_pipelines()
Pass2Done ==
    /\ lpc = "pass2"
    /\ idx > Len(listing)
    /\ PIPELINES' = get_all_pipelines(PIPELINE_MODULES)
    /\ lpc' = "hooks"
    /\ idx' = 1
    /\ UNCHANGED <<calls, bp, migvars, dirvars, PIPELINE_MODULES, PIPELINE_NAMES,
                   app_state_PIPELINES, loaded_single_files, imported, raised,
                   reqvars, valvars>>

\* the sequence without the later occurrences of a value
RECURSIVE FirstOccurrences(_)
FirstOccurrences(s) ==
    IF s = <<>> THEN <<>>
    ELSE LET d == FirstOccurrences(SubSeq(s, 1, Len(s) - 1))
         IN IF \E i \in 1..Len(d) : d[i] = s[Len(s)]
            THEN d ELSE Append(d, s[Len(s)])

\* the identifiers in the order of PIPELINE_MODULES.values() after a load
\* that did not crash: a dict keeps the order in which its keys were first
\* inserted, which is pass 1 and then pass 2, each in listing order
RegistrationOrder ==
    LET regs == SelectSeq(listing, LAMBDA e : e.form = "file" /\ e.load = "ok")
                  \o SelectSeq(listing, LAMBDA e : /\ e.form = "pkg"
                                                    /\ e.load = "ok"
                                                    /\ e.name \notin loaded_single_files)
    IN FirstOccurrences([i \in 1..Len(regs) |-> PipelineId(NewHandle(regs[i]))])

\* one turn of a loop `for module in PIPELINE_MODULES.values(): if
\* hasattr(module, hook): await module.<hook>()` at position idx: the call
\* returns and the loop goes on, or it raises and the exception leaves the
\* loop with lpc = failed
HookTurn(hook, failed) ==
    /\ idx <= Len(RegistrationOrder)
    /\ LET id == RegistrationOrder[idx]
       IN IF PIPELINE_MODULES[id][hook] = "raises"
          THEN /\ lpc' = failed
               /\ raised' = raised \cup { <<id, hook>> }
               /\ idx' = idx
          ELSE /\ idx' = idx + 1
               /\ UNCHANGED <<lpc, raised>>
    /\ UNCHANGED <<calls, bp, migvars, dirvars, regvars, app_state_PIPELINES,
                   loaded_single_files, imported, reqvars, valvars>>

\* on_startup: one turn of the loop over the on_startup hooks
StartupHooks ==
    /\ lpc = "hooks"
    /\ HookTurn("on_startup", "startup_failed")

\* on_startup returns: lifespan yields and the service serves requests
StartupDone ==
    /\ lpc = "hooks"
    /\ idx > Len(RegistrationOrder)
    /\ lpc' = "serving"
    /\ UNCHANGED <<calls, bp, migvars, dirvars, regvars, app_state_PIPELINES, idx,
                   loaded_single_files, imported, raised, reqvars, valvars>>

NextLoad ==
    \/ Pass1Step
    \/ Pass1Done
    \/ Pass2Step
    \/ Pass2Done
    \/ StartupHooks
    \/ StartupDone

SpecLoad == InitLoad /\ [][NextLoad]_vars

----------------------------------------------------------------------------
(* The lifespan: startup hooks, serving, shutdown hooks *)

\* X.py whose Pipeline has the given on_startup and on_shutdown methods
HookUnit(n, st, sh) ==
    [name |-> n, form |-> "file", load |-> "ok", id_attr |-> "",
     hasValves |-> FALSE, renames |-> FALSE,
     on_startup |-> st, on_shutdown |-> sh]

\* a.py and b.py in either order of os.listdir
HookListings ==
    { <<HookUnit(o[1], st1, sh1), HookUnit(o[2], st2, sh2)>> :
        o \in { <<"a", "b">>, <<"b", "a">> },
        st1 \in {"none", "returns", "raises"},
        sh1 \in {"none", "returns", "raises"},
        st2 \in {"none", "returns", "raises"},
        sh2 \in {"none", "returns", "raises"} }

InitHooks ==
    /\ NoMigration
    /\ NoBlueprintRun
    /\ NoCallInFlight
    /\ listing \in HookListings
    /\ fs = [n \in Names |-> FsEntry(FALSE, "absent", EmptyDict, "ok")]
    /\ PIPELINE_MODULES = EmptyDict
    /\ PIPELINE_NAMES = EmptyDict
    /\ PIPELINES = EmptyDict
    /\ app_state_PIPELINES = EmptyDict
    /\ lpc = "pass1"
    /\ idx = 1
    /\ loaded_single_files = {}
    /\ imported = {}
    /\ raised = {}
    /\ IdleRequest
    /\ last = NoCall
    /\ epoch = 0

\* the server is told to stop: lifespan resumes after its yield and calls
\* on_shutdown
Shutdown ==
    /\ lpc = "serving"
    /\ lpc' = "shutdown"
    /\ idx' = 1
    /\ UNCHANGED <<calls, bp, migvars, dirvars, regvars, app_state_PIPELINES,
                   loaded_single_files, imported, raised, reqvars, valvars>>

\* on_shutdown: one turn of the loop over the on_shutdown hooks
ShutdownHooks ==
    /\ lpc = "shutdown"
    /\ HookTurn("on_shutdown", "shutdown_failed")

\* on_shutdown returns and lifespan ends
ShutdownDone ==
    /\ lpc = "shutdown"
    /\ idx > Len(RegistrationOrder)
    /\ lpc' = "stopped"
    /\ UNCHANGED <<calls, bp, migvars, dirvars, regvars, app_state_PIPELINES, idx,
                   loaded_single_files, imported, raised, reqvars, valvars>>

NextHooks ==
    \/ NextLoad
    \/ Shutdown
    \/ ShutdownHooks
    \/ ShutdownDone

SpecHooks == InitHooks /\ [][NextHooks]_vars

----------------------------------------------------------------------------
(* Runs of the blueprint's pipe *)

\* the requests of the blueprint: every context with one environment, and
\* the usable context with the listings and with the model outcomes
BlueprintEnvs ==
    { [list |-> l, model |-> DefaultModelOutcome, upload |-> u] :
        l \in ListOutcomes, u \in {"ok", "fails"} }
    \cup { [list |-> ListOutcome("list", 1), model |-> m, upload |-> u] :
             m \in ModelOutcomes, u \in {"ok", "fails"} }

InitBlueprint ==
    /\ NoMigration
    /\ NoCallInFlight
    /\ listing = <<>>
    /\ fs = [n \in Names |-> FsEntry(FALSE, "absent", EmptyDict, "ok")]
    /\ PIPELINE_MODULES = EmptyDict
    /\ PIPELINE_NAMES = EmptyDict
    /\ PIPELINES = EmptyDict
    /\ app_state_PIPELINES = EmptyDict
    /\ lpc = "serving"
    /\ idx = 0
    /\ loaded_single_files = {}
    /\ imported = {}
    /\ raised = {}
    /\ form = [model |-> "", stream |-> FALSE]
    /\ ret = NoRes
    /\ res = NoRes
    /\ pc = "idle"
    /\ pos = 0
    /\ out = <<>>
    /\ response = NoResponse
    /\ last = NoCall
    /\ epoch = 0
    /\ \E c \in [base_url : {"none", "empty", "slash", "url"},
                  token : {"none", "empty", "tok"}], e \in BlueprintEnvs :
          /\ ~Usable(c) => e = [list |-> ListOutcome("list", 0),
                                model |-> DefaultModelOutcome, upload |-> "ok"]
          /\ bp = [ctx |-> c, env |-> e, n |-> 0, closed |-> FALSE]

\* next(generator): the generator runs to its next yield, or to its end
BpNext ==
    /\ ~bp.closed
    /\ ~Exhausted
    /\ LET stops == { k \in (bp.n + 1)..Len(Trace) : Trace[k].ev # "call" }
       IN bp' = [bp EXCEPT !.n = CHOOSE k \in stops : \A j \in stops : k <= j]
    /\ UNCHANGED <<calls, migvars, dirvars, regvars, app_state_PIPELINES,
                   loadvars, reqvars, valvars>>

\* the consumer gives up: generator.close() at the yield it is suspended at
BpClose ==
    /\ ~bp.closed
    /\ ~Exhausted
    /\ bp' = [bp EXCEPT !.closed = TRUE]
    /\ UNCHANGED <<calls, migvars, dirvars, regvars, app_state_PIPELINES,
                   loadvars, reqvars, valvars>>

SpecBlueprint == InitBlueprint /\ [][BpNext \/ BpClose]_vars

----------------------------------------------------------------------------
(* Valves requests *)

\* bodies of POST /{pipeline_id}/valves/update
Payloads ==
    { Merge(Merge(a, b), c) :
        a \in { EmptyDict, [k \in {"model"} |-> "m1"], [k \in {"model"} |-> "i7"] },
        b \in { EmptyDict, [k \in {"batch_size"} |-> "s7"],
                [k \in {"batch_size"} |-> "m1"] },
        c \in { EmptyDict, [k \in {"extra"} |-> "m1"] } }

\* the bodies sent to identifiers that turn out to have no valves
UnroutedPayloads == { EmptyDict, [k \in {"model"} |-> "m1"] }

RequestIds == Names \cup {"ghost"}

\* what open(valves_json_path, "w") and json.dump can do
WriteOutcomes == {"ok", "open_fails", "dump_fails"}

\* the file after `with open(path, "w") as f: json.dump(record, f)`
WriteFile(f, record, wr) ==
    CASE wr = "ok" -> [f EXCEPT !.file = "json", !.rec = record]
      [] wr = "dump_fails" -> [f EXCEPT !.file = "corrupt", !.rec = EmptyDict]
      [] OTHER -> f

\* update_valves assigning the fields one by one while it validates them
UpdateOutcomePartial(pipeline, form_data, f, wr) ==
    LET vm == ValvesModel(form_data)
    IN IF ~vm.ok
       THEN [status |-> 500,
             valves |-> [k \in Fields |->
                           IF k \in DOMAIN form_data /\ Coerce(k, form_data[k]) # Invalid
                           THEN Coerce(k, form_data[k]) ELSE pipeline.valves[k]],
             fs |-> f, wrote |-> EmptyDict]
       ELSE [status |-> IF wr = "ok" THEN 200 ELSE 500,
             valves |-> vm.valves,
             fs |-> WriteFile(f, model_dump(vm.valves), wr),
             wrote |-> IF wr = "ok" THEN WriteFile(f, model_dump(vm.valves), wr).rec
                       ELSE EmptyDict]

\* update_valves writing the request body instead of the validated record
UpdateOutcomeDumpsBody(pipeline, form_data, f, wr) ==
    LET vm == ValvesModel(form_data)
    IN IF ~vm.ok
       THEN [status |-> 500, valves |-> pipeline.valves, fs |-> f,
             wrote |-> EmptyDict]
       ELSE [status |-> IF wr = "ok" THEN 200 ELSE 500,
             valves |-> vm.valves,
             fs |-> WriteFile(f, form_data, wr),
             wrote |-> IF wr = "ok" THEN WriteFile(f, form_data, wr).rec
                       ELSE EmptyDict]

\* update_valves logging a failed write instead of raising
UpdateOutcomeSwallowsWrite(pipeline, form_data, f, wr) ==
    LET vm == ValvesModel(form_data)
    IN IF ~vm.ok
       THEN [status |-> 500, valves |-> pipeline.valves, fs |-> f,
             wrote |-> EmptyDict]
       ELSE [status |-> 200,
             valves |-> vm.valves,
             fs |-> WriteFile(f, model_dump(vm.valves), wr),
             wrote |-> IF wr = "ok" THEN WriteFile(f, model_dump(vm.valves), wr).rec
                       ELSE EmptyDict]

\* the try-block of update_valves for a pipeline that has valves, up to and
\* including the write of valves.json
UpdateOutcome(pipeline, form_data, f, wr) ==
    LET vm == ValvesModel(form_data)
    IN IF ~vm.ok
       THEN [status |-> 500, valves |-> pipeline.valves, fs |-> f,
             wrote |-> EmptyDict]
       ELSE [status |-> IF wr = "ok" THEN 200 ELSE 500,
             valves |-> vm.valves,
             fs |-> WriteFile(f, model_dump(vm.valves), wr),
             wrote |-> IF wr = "ok" THEN WriteFile(f, model_dump(vm.valves), wr).rec
                       ELSE EmptyDict]

\* what `await pipeline.on_valves_updated()` can do, for plugins that
\* define the hook
HookOutcomes == {"returned", "raised"}

\* the hook called before the file is written: it finds the file as
\* it was
HookViewBeforeWrite(f, u) == [valves |-> u.valves, file |-> f]

\* what on_valves_updated finds when it is called: pipeline.valves and
\* valves.json as update_valves has left them by then (f: the file before)
HookView(f, u) == [valves |-> u.valves, file |-> u.fs]

\* the record of a valves request: what was asked, the status and the kind
\* of body of the answer, the valves before and after, what was written to
\* valves.json and how the write and the hook went
Call(op, id, payload, status, before, after, wrote) ==
    [op |-> op, id |-> id, payload |-> payload, status |-> status,
     before |-> before, after |-> after, wrote |-> wrote, epoch |-> epoch,
     body |-> IF status = 200 THEN "valves" ELSE "error",
     write |-> "none", hook |-> "not_called", file_before |-> NoFile,
     hook_saw |-> NoCall.hook_saw, data |-> {}]

\* update_valves for an identifier without a handle, or without valves
UpdateValvesNotFound ==
    /\ lpc = "serving"
    /\ \E id \in RequestIds, form_data \in UnroutedPayloads :
          /\ id \notin DOMAIN PIPELINE_MODULES
             \/ (id \in DOMAIN PIPELINE_MODULES /\ ~PIPELINE_MODULES[id].hasValves)
          /\ last' = Call("update", id, form_data, 404, Defaults, Defaults, EmptyDict)
    /\ app_state_PIPELINES' = check_url
    /\ UNCHANGED <<calls, bp, migvars, dirvars, regvars, loadvars, reqvars, epoch>>

\* update_valves(pipeline_id, form_data)
UpdateValves ==
    /\ lpc = "serving"
    /\ \E id \in DOMAIN PIPELINE_MODULES, form_data \in Payloads :
       \E wr \in IF ValvesModel(form_data).ok THEN WriteOutcomes ELSE {"none"} :
       \* the hook is reached only when nothing raised before it
       \E hook \in IF wr = "ok" THEN HookOutcomes ELSE {"not_called"} :
          LET pipeline == PIPELINE_MODULES[id]
              name == PIPELINE_NAMES[id]
              u == UpdateOutcome(pipeline, form_data, fs[name], wr)
              status == IF hook = "raised" THEN 500 ELSE u.status
          IN /\ pipeline.hasValves
             /\ PIPELINE_MODULES' =
                  [PIPELINE_MODULES EXCEPT
                     ![id].valves = u.valves,
                     \* on_valves_updated: self.name = self.valves.<field>
                     ![id].display = IF hook = "returned" /\ pipeline.renames
                                     THEN u.valves["model"]
                                     ELSE pipeline.display]
             /\ fs' = [fs EXCEPT ![name] = u.fs]
             /\ last' = [Call("update", id, form_data, status,
                              pipeline.valves, u.valves, u.wrote)
                           EXCEPT !.write = wr,
                                  !.hook = hook,
                                  !.file_before = fs[name],
                                  !.hook_saw = IF hook = "not_called"
                                               THEN NoCall.hook_saw
                                               ELSE HookView(fs[name], u)]
    /\ app_state_PIPELINES' = check_url
    /\ UNCHANGED <<calls, bp, migvars, listing, PIPELINE_NAMES, PIPELINES, loadvars, reqvars, epoch>>

\* the service is stopped and started again: the module-level registries
\* are empty again and on_startup runs against the directories as they are
Restart ==
    /\ lpc = "serving"
    /\ epoch < MaxRestarts
    /\ epoch' = epoch + 1
    /\ PIPELINE_MODULES' = EmptyDict
    /\ PIPELINE_NAMES' = EmptyDict
    /\ PIPELINES' = EmptyDict
    /\ app_state_PIPELINES' = EmptyDict
    /\ lpc' = "pass1"
    /\ idx' = 1
    /\ loaded_single_files' = {}
    /\ imported' = {}
    /\ raised' = {}
    /\ UNCHANGED <<calls, bp, migvars, dirvars, reqvars, last>>

\* the directories of the valves requests: a.py with
\* valves, alone or next to b.py without valves, or a.py declaring the id "b"
UnitFile(n, id_attr, hasValves) ==
    [name |-> n, form |-> "file", load |-> "ok", id_attr |-> id_attr,
     hasValves |-> hasValves, renames |-> FALSE,
     on_startup |-> "none", on_shutdown |-> "none"]

ValveListings ==
    { <<UnitFile("a", "", TRUE)>>,
      <<UnitFile("a", "", TRUE), UnitFile("b", "", FALSE)>>,
      <<UnitFile("a", "b", TRUE)>> }

ValveFsStates ==
    { FsEntry(FALSE, "absent", EmptyDict, "ok"),
      FsEntry(TRUE, "json", [k \in {"model"} |-> "m1"], "ok") }

InitValves ==
    /\ NoMigration
    /\ NoBlueprintRun
    /\ NoCallInFlight
    /\ listing \in ValveListings
    /\ fs \in [Names -> ValveFsStates]
    /\ PIPELINE_MODULES = EmptyDict
    /\ PIPELINE_NAMES = EmptyDict
    /\ PIPELINES = EmptyDict
    /\ app_state_PIPELINES = EmptyDict
    /\ lpc = "pass1"
    /\ idx = 1
    /\ loaded_single_files = {}
    /\ imported = {}
    /\ raised = {}
    /\ IdleRequest
    /\ last = NoCall
    /\ epoch = 0

NextValves ==
    \/ NextLoad
    \/ UpdateValvesNotFound
    \/ UpdateValves
    \/ Restart

SpecValves == InitValves /\ [][NextValves]_vars

----------------------------------------------------------------------------
(* The listing of models *)

\* the "data" of the response of get_models, made from a listing
ModelsData(pipelines) ==
    { [id |-> pipelines[id].id, name |-> pipelines[id].name,
       valves |-> pipelines[id].valves] : id \in DOMAIN pipelines }

\* get_models serving the module global PIPELINES, the listing computed
\* at the end of startup
GetModelsStale ==
    /\ lpc = "serving"
    /\ app_state_PIPELINES' = check_url
    /\ last' = [Call("models", "", EmptyDict, 200, Defaults, Defaults, EmptyDict)
                  EXCEPT !.body = "list", !.data = ModelsData(PIPELINES)]
    /\ UNCHANGED <<calls, bp, migvars, dirvars, regvars, loadvars, reqvars, epoch>>

\* get_models()
GetModels ==
    /\ lpc = "serving"
    /\ app_state_PIPELINES' = check_url
    /\ last' = [Call("models", "", EmptyDict, 200, Defaults, Defaults, EmptyDict)
                  EXCEPT !.body = "list", !.data = ModelsData(check_url)]
    /\ UNCHANGED <<calls, bp, migvars, dirvars, regvars, loadvars, reqvars, epoch>>

\* a unit like n8n_pipeline.py: it has valves and its hook renames it
RenamingUnit(n) == [UnitFile(n, "", TRUE) EXCEPT !.renames = TRUE]

ModelsListings ==
    { <<RenamingUnit("a")>>,
      <<RenamingUnit("a"), UnitFile("b", "", FALSE)>> }

InitModels ==
    /\ NoMigration
    /\ NoBlueprintRun
    /\ NoCallInFlight
    /\ listing \in ModelsListings
    /\ fs \in [Names -> ValveFsStates]
    /\ PIPELINE_MODULES = EmptyDict
    /\ PIPELINE_NAMES = EmptyDict
    /\ PIPELINES = EmptyDict
    /\ app_state_PIPELINES = EmptyDict
    /\ lpc = "pass1"
    /\ idx = 1
    /\ loaded_single_files = {}
    /\ imported = {}
    /\ raised = {}
    /\ IdleRequest
    /\ last = NoCall
    /\ epoch = 0

NextModels ==
    \/ NextLoad
    \/ GetModels
    \/ UpdateValvesNotFound
    \/ UpdateValves

SpecModels == InitModels /\ [][NextModels]_vars

----------------------------------------------------------------------------
(* The completion request *)

ModelIds == {"echo", "ghost"}

\* the registry after a startup that found the one unit echo.py
EchoUnit ==
    [name |-> "echo", form |-> "file", load |-> "ok", id_attr |-> "",
     hasValves |-> TRUE, renames |-> FALSE,
     on_startup |-> "none", on_shutdown |-> "none"]
EchoModules == [id \in {"echo"} |-> NewHandle(EchoUnit)]


InitDispatch ==
    /\ NoMigration
    /\ NoBlueprintRun
    /\ NoCallInFlight
    /\ listing = <<>>
    /\ fs = [n \in Names |-> FsEntry(FALSE, "absent", EmptyDict, "ok")]
    /\ PIPELINE_MODULES = EchoModules
    /\ PIPELINE_NAMES = [id \in {"echo"} |-> "echo"]
    /\ PIPELINES = get_all_pipelines(EchoModules)
    /\ app_state_PIPELINES \in {EmptyDict, get_all_pipelines(EchoModules)}
    /\ lpc = "serving"
    /\ idx = 0
    /\ loaded_single_files = {}
    /\ imported = {}
    /\ raised = {}
    /\ last = NoCall
    /\ epoch = 0
    /\ form \in [model : ModelIds, stream : BOOLEAN]
    /\ ret \in ReturnShapes \cup RaisingShapes
    /\ res = NoRes
    /\ pc = "request"
    /\ pos = 0
    /\ out = <<>>
    /\ response = NoResponse

\* generate_openai_chat_completion: the membership check
NotFoundCompletion ==
    /\ pc = "request"
    /\ app_state_PIPELINES' = check_url
    /\ form.model \notin DOMAIN check_url
    /\ response' = NotFound
    /\ pc' = "returned"
    /\ UNCHANGED <<calls, bp, migvars, form, ret, res, pos, out, dirvars, regvars, loadvars, valvars>>

\* job() for stream=true: returns the StreamingResponse around the
\* not yet started generator stream_content()
JobStreaming ==
    /\ pc = "request"
    /\ app_state_PIPELINES' = check_url
    /\ form.model \in DOMAIN check_url
    /\ form.stream
    /\ response' = StreamingResponse
    /\ pc' = "start"
    /\ UNCHANGED <<calls, bp, migvars, form, ret, res, pos, out, dirvars, regvars, loadvars, valvars>>

\* stream_content: res = pipe(...)
StreamCallPipe ==
    /\ pc = "start"
    /\ ~PipeRaises(ret)
    /\ res' = ret
    /\ pc' = "called"
    /\ UNCHANGED <<calls, bp, migvars, form, ret, pos, out, response, dirvars, regvars, loadvars, valvars, app_state_PIPELINES>>

\* stream_content: pipe(...) raises; nothing in stream_content catches it,
\* the generator dies and the response body ends where it is
StreamPipeRaises ==
    /\ pc = "start"
    /\ PipeRaises(ret)
    /\ res' = ret
    /\ pc' = "aborted"
    /\ UNCHANGED <<calls, bp, migvars, form, ret, pos, out, response, dirvars, regvars, loadvars, valvars, app_state_PIPELINES>>

\* stream_content without the branch `if isinstance(res, str)`: a string is
\* not an Iterator either, so nothing is written for it before the terminator
StreamStrNoChunk ==
    /\ pc = "called"
    /\ IsStr(res)
    /\ pc' = "str"
    /\ UNCHANGED <<calls, bp, migvars, form, ret, res, pos, out, response, dirvars, regvars, loadvars, valvars, app_state_PIPELINES>>

\* stream_content: if isinstance(res, str): yield the whole string
StreamStr ==
    /\ pc = "called"
    /\ IsStr(res)
    /\ out' = Append(out, stream_message_template(form.model, res.value))
    /\ pc' = "str"
    /\ UNCHANGED <<calls, bp, migvars, form, ret, res, pos, response, dirvars, regvars, loadvars, valvars, app_state_PIPELINES>>

\* control is at (or falls through to) the `for line in res` loop
AtLoop == (pc = "called" /\ ~IsStr(res)) \/ pc = "str" \/ pc = "loop"

\* stream_content: one iteration of `for line in res`
StreamItem ==
    /\ AtLoop
    /\ IsIterator(res)
    /\ pos < Len(res.items)
    /\ res.items[pos + 1] # Raise
    /\ out' = Append(out, StreamFrame(form.model,
                                      Produced(res.items[pos + 1],
                                               PIPELINE_MODULES[form.model])))
    /\ pos' = pos + 1
    /\ pc' = "loop"
    /\ UNCHANGED <<calls, bp, migvars, form, ret, res, response, dirvars, regvars, loadvars, valvars, app_state_PIPELINES>>

\* stream_content: `for line in res` when the sequence raises instead of
\* giving its next item
StreamItemRaises ==
    /\ AtLoop
    /\ IsIterator(res)
    /\ pos < Len(res.items)
    /\ res.items[pos + 1] = Raise
    /\ pc' = "aborted"
    /\ UNCHANGED <<calls, bp, migvars, form, ret, res, pos, out, response, dirvars, regvars, loadvars, valvars, app_state_PIPELINES>>

LoopOver == AtLoop /\ (IsIterator(res) => pos = Len(res.items))

\* stream_content: yield the finish_message
StreamFinish ==
    /\ LoopOver
    /\ IsStr(res) \/ IsGenerator(res)
    /\ out' = Append(out, finish_message(form.model))
    /\ pc' = "finish"
    /\ UNCHANGED <<calls, bp, migvars, form, ret, res, pos, response, dirvars, regvars, loadvars, valvars, app_state_PIPELINES>>

\* stream_content: yield "data: [DONE]"
StreamDone ==
    /\ pc = "finish"
    /\ out' = Append(out, DoneFrame)
    /\ pc' = "done"
    /\ UNCHANGED <<calls, bp, migvars, form, ret, res, pos, response, dirvars, regvars, loadvars, valvars, app_state_PIPELINES>>

\* stream_content returns: the stream is closed
StreamClose ==
    /\ \/ pc = "done"
       \/ LoopOver /\ ~(IsStr(res) \/ IsGenerator(res))
    /\ pc' = "closed"
    /\ UNCHANGED <<calls, bp, migvars, form, ret, res, pos, out, response, dirvars, regvars, loadvars, valvars, app_state_PIPELINES>>

\* job() for stream=false
JobNonStreaming ==
    /\ pc = "request"
    /\ app_state_PIPELINES' = check_url
    /\ form.model \in DOMAIN check_url
    /\ ~form.stream
    /\ res' = ret
    /\ response' =
         IF PipeRaises(ret) THEN ServerError
         ELSE IF ret.kind = "dict" THEN ObjectResponse(ret.value)
         ELSE IF ret.kind = "BaseModel"
              THEN ObjectResponse(PyDict(ret.value.val[1]))
         ELSE IF IsGenerator(ret) /\ RaisesWhenConsumed(ret) THEN ServerError
         ELSE Completion(form.model,
                         NonStreamMessage(ProducedAll(ret, PIPELINE_MODULES[form.model])))
    /\ pos' = IF IsGenerator(ret) THEN Len(Delivered(ret)) ELSE 0
    /\ pc' = "returned"
    /\ UNCHANGED <<calls, bp, migvars, form, ret, out, dirvars, regvars, loadvars, valvars>>

NextDispatch ==
    \/ NotFoundCompletion
    \/ JobStreaming
    \/ StreamCallPipe
    \/ StreamPipeRaises
    \/ StreamStr
    \/ StreamItem
    \/ StreamItemRaises
    \/ StreamFinish
    \/ StreamDone
    \/ StreamClose
    \/ JobNonStreaming

SpecDispatch == InitDispatch /\ [][NextDispatch]_vars

----------------------------------------------------------------------------
(* The four endpoints that take a pipeline identifier *)

\* get_valves answering an unknown identifier with a default record
GetValvesDefaultHandle ==
    /\ lpc = "serving"
    /\ \E id \in RequestIds :
          LET found == id \in DOMAIN PIPELINE_MODULES
                         /\ PIPELINE_MODULES[id].hasValves
              v == IF found THEN PIPELINE_MODULES[id].valves ELSE Defaults
          IN last' = Call("get", id, EmptyDict, 200, v, v, EmptyDict)
    /\ app_state_PIPELINES' = check_url
    /\ UNCHANGED <<calls, bp, migvars, dirvars, regvars, loadvars, reqvars, epoch>>

\* get_valves(pipeline_id)
GetValves ==
    /\ lpc = "serving"
    /\ \E id \in RequestIds :
          LET found == id \in DOMAIN PIPELINE_MODULES
                         /\ PIPELINE_MODULES[id].hasValves
              v == IF found THEN PIPELINE_MODULES[id].valves ELSE Defaults
          IN last' = Call("get", id, EmptyDict, IF found THEN 200 ELSE 404,
                          v, v, EmptyDict)
    /\ app_state_PIPELINES' = check_url
    /\ UNCHANGED <<calls, bp, migvars, dirvars, regvars, loadvars, reqvars, epoch>>

\* get_valves_spec(pipeline_id)
GetValvesSpec ==
    /\ lpc = "serving"
    /\ \E id \in RequestIds :
          LET found == id \in DOMAIN PIPELINE_MODULES
                         /\ PIPELINE_MODULES[id].hasValves
              v == IF found THEN PIPELINE_MODULES[id].valves ELSE Defaults
          IN last' = [Call("spec", id, EmptyDict, IF found THEN 200 ELSE 404,
                           v, v, EmptyDict)
                        EXCEPT !.body = IF found THEN "schema" ELSE "error"]
    /\ app_state_PIPELINES' = check_url
    /\ UNCHANGED <<calls, bp, migvars, dirvars, regvars, loadvars, reqvars, epoch>>

\* the directory of the service: a.py with valves, b.py without
ServeUnits == [n \in Names |-> UnitFile(n, "", n = "a")]
ServeModules(f0) ==
    [id \in Names |->
        [NewHandle(ServeUnits[id])
           EXCEPT !.valves = Hydrate(NewHandle(ServeUnits[id]), f0[id]).valves]]
ServeFs(f0) ==
    [n \in Names |-> Hydrate(NewHandle(ServeUnits[n]), f0[n]).fs]

\* what the entry point of a returns in these runs
ServeShapes ==
    { Returned("str", PyStr(<<"A">>), <<>>),
      Returned("generator", NoValue, <<PyStr(<<"A">>), Raise>>),
      Returned("raises", NoValue, <<>>) }

\* the override files before that startup: none
ServeFsStates == { FsEntry(FALSE, "absent", EmptyDict, "ok") }

\* the service after a startup that loaded a.py and b.py, with one
\* completion request arriving
InitServe ==
    /\ NoMigration
    /\ NoBlueprintRun
    /\ NoCallInFlight
    /\ listing = <<ServeUnits["a"], ServeUnits["b"]>>
    /\ \E f0 \in [Names -> ServeFsStates] :
          /\ fs = ServeFs(f0)
          /\ PIPELINE_MODULES = ServeModules(f0)
    /\ PIPELINE_NAMES = [id \in Names |-> id]
    /\ PIPELINES = get_all_pipelines(PIPELINE_MODULES)
    /\ app_state_PIPELINES = PIPELINES
    /\ lpc = "serving"
    /\ idx = 0
    /\ loaded_single_files = Names
    /\ imported = { <<n, "file">> : n \in Names }
    /\ raised = {}
    /\ last = NoCall
    /\ epoch = 0
    /\ form \in [model : {"a", "ghost"}, stream : BOOLEAN]
    /\ ret \in ServeShapes
    /\ (form.model = "ghost" \/ ~form.stream) => ret = Returned("str", PyStr(<<"A">>), <<>>)
    /\ res = NoRes
    /\ pc = "request"
    /\ pos = 0
    /\ out = <<>>
    /\ response = NoResponse

NextServe ==
    \/ NextDispatch
    \/ GetValves
    \/ GetValvesSpec
    \/ UpdateValvesNotFound
    \/ UpdateValves

SpecServe == InitServe /\ [][NextServe]_vars

----------------------------------------------------------------------------
(* update_valves calls in flight together *)

\* update_valves is a coroutine on the event loop: it runs without a break
\* from its start to `await pipeline.on_valves_updated()`, where a hook
\* that awaits something lets other requests run, and again from there to
\* its return

\* the bodies of these calls, all sent to a
RacePayloads ==
    { [k \in {"model"} |-> "m1"], [k \in {"batch_size"} |-> "s7"],
      [k \in {"model"} |-> "i7"] }

InitRace ==
    /\ NoMigration
    /\ NoBlueprintRun
    /\ NoCallInFlight
    /\ listing = <<ServeUnits["a"], ServeUnits["b"]>>
    /\ \E f0 \in [Names -> ServeFsStates] :
          /\ fs = ServeFs(f0)
          /\ PIPELINE_MODULES = ServeModules(f0)
    /\ PIPELINE_NAMES = [id \in Names |-> id]
    /\ PIPELINES = get_all_pipelines(PIPELINE_MODULES)
    /\ app_state_PIPELINES = PIPELINES
    /\ lpc = "serving"
    /\ idx = 0
    /\ loaded_single_files = Names
    /\ imported = { <<n, "file">> : n \in Names }
    /\ raised = {}
    /\ last = NoCall
    /\ epoch = 0
    /\ IdleRequest

\* update_valves("a", form_data) from its start to the await of the hook,
\* or to the HTTPException of its except clause
UpdateEnters ==
    /\ lpc = "serving"
    /\ \E r \in 1..MaxCalls, form_data \in RacePayloads :
       \E wr \in IF ValvesModel(form_data).ok THEN WriteOutcomes ELSE {"none"} :
          LET u == UpdateOutcome(PIPELINE_MODULES["a"], form_data,
                                 fs[PIPELINE_NAMES["a"]], wr)
          IN /\ calls[r].pc = "idle"
             /\ PIPELINE_MODULES' = [PIPELINE_MODULES EXCEPT !["a"].valves = u.valves]
             /\ fs' = [fs EXCEPT ![PIPELINE_NAMES["a"]] = u.fs]
             /\ calls' = [calls EXCEPT ![r] =
                   [pc |-> IF u.status = 200 THEN "hook" ELSE "done",
                    payload |-> form_data,
                    valves |-> ValvesModel(form_data).valves,
                    status |-> IF u.status = 200 THEN 0 ELSE 500,
                    returned |-> Defaults]]
    /\ app_state_PIPELINES' = check_url
    /\ UNCHANGED <<bp, migvars, listing, PIPELINE_NAMES, PIPELINES, loadvars,
                   reqvars, valvars>>

\* the hook returns and update_valves writes valves.json only now, after
\* the await
UpdateReturnsThenWrites ==
    /\ \E r \in 1..MaxCalls :
          /\ calls[r].pc = "hook"
          /\ fs' = [fs EXCEPT ![PIPELINE_NAMES["a"]] =
                      WriteFile(@, model_dump(calls[r].valves), "ok")]
          /\ calls' = [calls EXCEPT ![r].pc = "done", ![r].status = 200,
                                    ![r].returned = PIPELINE_MODULES["a"].valves]
    /\ UNCHANGED <<bp, migvars, listing, regvars, app_state_PIPELINES, loadvars,
                   reqvars, valvars>>

\* the hook returns: `return pipeline.valves`
UpdateReturns ==
    /\ \E r \in 1..MaxCalls :
          /\ calls[r].pc = "hook"
          /\ calls' = [calls EXCEPT ![r].pc = "done", ![r].status = 200,
                                    ![r].returned = PIPELINE_MODULES["a"].valves]
    /\ UNCHANGED <<bp, migvars, dirvars, regvars, app_state_PIPELINES, loadvars,
                   reqvars, valvars>>

\* the hook raises: the except clause answers 500
UpdateHookRaises ==
    /\ \E r \in 1..MaxCalls :
          /\ calls[r].pc = "hook"
          /\ calls' = [calls EXCEPT ![r].pc = "done", ![r].status = 500]
    /\ UNCHANGED <<bp, migvars, dirvars, regvars, app_state_PIPELINES, loadvars,
                   reqvars, valvars>>

SpecRace == InitRace /\ [][UpdateEnters \/ UpdateReturns \/ UpdateHookRaises]_vars

----------------------------------------------------------------------------
(* Completion requests next to configuration updates *)

\* a generator like blueprint's pipe: it yields text made from
\* self.valves.model, twice
ConfigShapes == { Returned("generator", NoValue, <<ConfigItem, ConfigItem>>) }

\* the service after a startup that loaded a.py and b.py, with one
\* completion request for a arriving
InitConfig ==
    /\ NoMigration
    /\ NoBlueprintRun
    /\ NoCallInFlight
    /\ listing = <<ServeUnits["a"], ServeUnits["b"]>>
    /\ \E f0 \in [Names -> ServeFsStates] :
          /\ fs = ServeFs(f0)
          /\ PIPELINE_MODULES = ServeModules(f0)
    /\ PIPELINE_NAMES = [id \in Names |-> id]
    /\ PIPELINES = get_all_pipelines(PIPELINE_MODULES)
    /\ app_state_PIPELINES = PIPELINES
    /\ lpc = "serving"
    /\ idx = 0
    /\ loaded_single_files = Names
    /\ imported = { <<n, "file">> : n \in Names }
    /\ raised = {}
    /\ last = NoCall
    /\ epoch = 0
    /\ form \in [model : {"a"}, stream : BOOLEAN]
    /\ ret \in ConfigShapes
    /\ res = NoRes
    /\ pc = "request"
    /\ pos = 0
    /\ out = <<>>
    /\ response = NoResponse

NextConfig ==
    \/ JobStreaming
    \/ StreamCallPipe
    \/ StreamItem
    \/ StreamFinish
    \/ StreamDone
    \/ StreamClose
    \/ JobNonStreaming
    \/ UpdateValves

SpecConfig == InitConfig /\ [][NextConfig]_vars

----------------------------------------------------------------------------
(* Properties of the dispatcher *)

Streaming == response = StreamingResponse
StreamClosed == Streaming /\ pc = "closed"
NonStreamReturned == pc = "returned" /\ ~form.stream /\ response.status = 200

IsTerminalChunk(f) ==
    f.frame = "chunk" /\ f.delta = EmptyDelta /\ f.finish = "stop"

TerminalAt == { i \in 1..Len(out) : IsTerminalChunk(out[i]) }
DoneAt == { i \in 1..Len(out) : out[i] = DoneFrame }

\* what the frame made from one item has to look like
DerivedFrom(f, item) ==
    CASE item.type \in {"dict", "BaseModel"} ->
            /\ f.frame = "raw"
            /\ f.line = <<"data:", "{">> \o item.val \o <<"}">>
      [] item.type \in {"str", "bytes"} /\ item.val # <<>> /\ item.val[1] = "data:" ->
            /\ f.frame = "raw"
            /\ f.line = item.val
      [] OTHER ->
            /\ f.frame = "chunk"
            /\ f.model = form.model
            /\ f.delta = PyStr(item.val)
            /\ f.finish = "null"

RECURSIVE ConcatText(_)
ConcatText(items) ==
    IF items = <<>> THEN <<>> ELSE Head(items).val \o ConcatText(Tail(items))

RECURSIVE OnlyText(_)
OnlyText(items) ==
    IF items = <<>> THEN <<>>
    ELSE IF IsText(Head(items)) THEN <<Head(items)>> \o OnlyText(Tail(items))
    ELSE OnlyText(Tail(items))

AllText(items) == \A k \in 1..Len(items) : IsText(items[k])

\* C1: every closed stream of a streaming dispatch, whatever the entry
\* point returned, ends with exactly one terminal chunk (empty delta,
\* finish_reason "stop") immediately followed by the [DONE] sentinel, and
\* nothing follows the sentinel.
C1_StreamEndsWithStopThenDone ==
    StreamClosed =>
        /\ Len(out) >= 2
        /\ out[Len(out)] = DoneFrame
        /\ IsTerminalChunk(out[Len(out) - 1])
        /\ Cardinality(TerminalAt) = 1
        /\ Cardinality(DoneAt) = 1

\* C2: for a lazy sequence of n items the k-th emitted frame is derived
\* from the k-th item; once the stream is closed exactly n frames precede
\* whatever terminates it, and for a generator the n frames are followed by
\* the terminal chunk and the sentinel and nothing else.
C2_FramesFollowItems ==
    (Streaming /\ IsIterator(res)) =>
        /\ Len(out) >= pos
        /\ \A k \in 1..pos : DerivedFrom(out[k], res.items[k])
        /\ \A k \in (pos + 1)..Len(out) :
               IsTerminalChunk(out[k]) \/ out[k] = DoneFrame
        /\ pc \in {"finish", "done", "closed"} => pos = Len(res.items)
        /\ (pc = "closed" /\ IsGenerator(res)) =>
               out = SubSeq(out, 1, pos)
                       \o <<finish_message(form.model), DoneFrame>>

\* the scenario of C2: ["A", status event, "B"] has been streamed
C2_Witness ==
    /\ StreamClosed
    /\ res.kind = "generator"
    /\ res.items = <<PyStr(<<"A">>), StatusEvent, PyStr(<<"B">>)>>
    /\ Len(out) = 5
    /\ out[1].delta = PyStr(<<"A">>)
    /\ out[2].frame = "raw"
    /\ out[3].delta = PyStr(<<"B">>)

\* C3: a non-streaming dispatch whose entry point produced a lazy sequence
\* of text fragments only returns a completion whose content is their
\* concatenation in order, with the requested model and finish "stop".
C3_TextFragmentsConcatenated ==
    (NonStreamReturned /\ IsIterator(res) /\ AllText(res.items)) =>
        /\ response.body = "chat.completion"
        /\ response.content = ConcatText(res.items)
        /\ response.model = form.model
        /\ response.finish = "stop"

\* C4: in a non-streaming dispatch over a sequence mixing text and event
\* items, the content is the concatenation of the text fragments only.
C4_EventsNotInMessage ==
    (NonStreamReturned /\ IsGenerator(res)) =>
        response.content = ConcatText(OnlyText(res.items))

----------------------------------------------------------------------------
(* Properties of discovery *)

DiscoveryOver == lpc \in {"hooks", "serving", "crashed"}

Listed == { listing[i] : i \in 1..Len(listing) }

Registered(e) ==
    \E id \in DOMAIN PIPELINE_MODULES :
        /\ PIPELINE_MODULES[id].module = e.name
        /\ PIPELINE_MODULES[id].form = e.form
        /\ PIPELINE_NAMES[id] = e.name

\* the units the two passes import and instantiate successfully: every
\* loadable file, and every loadable package not claimed by such a file
LoadedUnits ==
    { e \in Listed :
        /\ e.load = "ok"
        /\ e.form = "pkg" =>
             ~\E g \in Listed : g.name = e.name /\ g.form = "file" /\ g.load = "ok" }

HydrationFailed(kinds) == { r \in raised : r[2] \in kinds }

\* C5: after discovery a unit without a Pipeline class, or whose import or
\* instantiation raised, is not in the registry, and every unit that loaded
\* successfully is, whatever the order of the listing.
C5_DiscoveryIndependentPerUnit ==
    DiscoveryOver =>
        /\ \A e \in Listed \ LoadedUnits : e.load # "ok" => ~Registered(e)
        /\ \A e \in LoadedUnits : Registered(e)

\* C6: an I/O error while hydrating a unit's valves is not fatal: startup
\* goes on and the unit is registered with its compiled-in defaults.
C6_HydrateIoErrorNonFatal ==
    \A r \in HydrationFailed({"io"}) :
        /\ lpc # "crashed"
        /\ DiscoveryOver =>
             \E id \in DOMAIN PIPELINE_MODULES :
                 /\ PIPELINE_NAMES[id] = r[1]
                 /\ PIPELINE_MODULES[id].valves = Defaults

\* C7: a unit whose valves.json is not valid JSON, or holds a value its
\* Valves schema rejects, prevents neither the start of the service nor the
\* registration of the other units.
C7_BadOverrideFileIsolated ==
    \A r \in HydrationFailed({"json", "schema"}) :
        /\ lpc # "crashed"
        /\ DiscoveryOver =>
             \A e \in LoadedUnits : e.name # r[1] => Registered(e)

----------------------------------------------------------------------------
(* Properties of valves updates *)

UpdateAnswered ==
    /\ lpc = "serving"
    /\ last.op = "update"
    /\ last.status # 404
    /\ last.epoch = epoch
    /\ last.id \in DOMAIN PIPELINE_MODULES

\* C8: an update whose payload fails schema validation leaves the in-memory
\* configuration exactly as it was and is answered with an error.
C8_FailedValidationChangesNothing ==
    (UpdateAnswered /\ ~ValvesModel(last.payload).ok) =>
        /\ PIPELINE_MODULES[last.id].valves = last.before
        /\ last.status = 500

\* a payload with one valid and one invalid field has been rejected by a
\* plugin whose configuration is not the default one
C8_Witness ==
    /\ UpdateAnswered
    /\ last.payload = Merge([k \in {"model"} |-> "m1"], [k \in {"batch_size"} |-> "m1"])
    /\ last.status = 500
    /\ last.before = [model |-> "m0", batch_size |-> "i7"]
    /\ PIPELINE_MODULES[last.id].valves = last.before

\* C9: after a successful update every field absent from the body has the
\* value it had before the update, in memory and in the file.
C9_AbsentFieldsKeepCurrentValue ==
    (UpdateAnswered /\ last.status = 200) =>
        \A k \in Fields \ DOMAIN last.payload :
            /\ PIPELINE_MODULES[last.id].valves[k] = last.before[k]
            /\ LET f == fs[PIPELINE_NAMES[last.id]]
               IN f.file = "json" /\ k \in DOMAIN f.rec /\ f.rec[k] = last.before[k]

RehydratedAfterUpdate ==
    /\ lpc = "serving"
    /\ last.op = "update"
    /\ last.status = 200
    /\ epoch > last.epoch

\* C10: after a successful update, a fresh handle of the unit hydrated by
\* _register_pipeline holds, field for field, the persisted record merged
\* over the defaults, which is also the configuration the update left in
\* memory.
C10_PersistHydrateRoundTrip ==
    RehydratedAfterUpdate =>
        /\ last.id \in DOMAIN PIPELINE_MODULES
        /\ PIPELINE_MODULES[last.id].valves = Merge(Defaults, last.wrote)
        /\ PIPELINE_MODULES[last.id].valves = last.after

\* a body with a numeric string for batch_size was persisted and hydrated
C10_Witness ==
    /\ RehydratedAfterUpdate
    /\ "batch_size" \in DOMAIN last.payload
    /\ last.payload["batch_size"] = "s7"
    /\ last.id \in DOMAIN PIPELINE_MODULES
    /\ PIPELINE_MODULES[last.id].valves["batch_size"] = "i7"

UpdatedFile == fs[PIPELINE_NAMES[last.id]]

\* C11: after a successful update the override file holds the full current
\* record: every field of the schema, with the values of the configuration
\* in memory.
C11_FileHoldsFullRecord ==
    (UpdateAnswered /\ last.status = 200) =>
        /\ UpdatedFile.file = "json"
        /\ DOMAIN UpdatedFile.rec = Fields
        /\ \A k \in Fields :
               UpdatedFile.rec[k] = PIPELINE_MODULES[last.id].valves[k]

\* a body with the one field model was accepted and the file holds both fields
C11_Witness ==
    /\ UpdateAnswered
    /\ last.status = 200
    /\ DOMAIN last.payload = {"model"}
    /\ UpdatedFile.rec = [model |-> "m1", batch_size |-> "i25"]

\* C12: whatever happens to the write, after update_valves the override file
\* holds either the complete previous record or the complete new record.
C12_RewriteIsAtomic ==
    UpdateAnswered =>
        /\ UpdatedFile.file = "json"
        /\ \/ UpdatedFile.rec = last.file_before.rec
           \/ UpdatedFile.rec = model_dump(last.after)

\* C13: an update whose validation or whose file write failed is answered
\* with a 500 error, never with a success.
C13_FailuresAreSurfaced ==
    (UpdateAnswered
       /\ (~ValvesModel(last.payload).ok
            \/ last.write \in {"open_fails", "dump_fails"})) =>
        /\ last.status = 500
        /\ last.body = "error"

\* the write of a validated record failed and the caller received a 500
C13_Witness ==
    /\ UpdateAnswered
    /\ ValvesModel(last.payload).ok
    /\ last.write = "dump_fails"
    /\ last.status = 500

----------------------------------------------------------------------------
(* Properties of the dispatcher: exceptions and structured items *)

\* the non-streaming job ended because the plugin raised
NonStreamRaised ==
    /\ pc = "returned"
    /\ ~form.stream
    /\ PipeRaises(res) \/ (IsGenerator(res) /\ RaisesWhenConsumed(res))

\* the message accumulated before the exception is not empty
OutputExists == IsGenerator(res) /\ Accumulate(<<>>, Delivered(res)) # <<>>

\* C14: in a non-streaming dispatch an exception of the entry point, or of
\* the sequence being consumed, is caught for that request: when output
\* already exists the caller receives a response whose body is that output
\* with the error message appended, and only when no output exists an
\* HTTP-level error; the service keeps serving.
C14_NonStreamErrorAppendedToBody ==
    NonStreamRaised =>
        /\ lpc = "serving"
        /\ IF OutputExists
           THEN /\ response.status = 200
                /\ response.body = "chat.completion"
                /\ response.content =
                       Accumulate(<<>>, Delivered(res)) \o ErrorMessage
           ELSE response.status = 500

Mentions(toks, word) == \E i \in 1..Len(toks) : toks[i] = word

\* a frame that tells the client about the exception
IsErrorChunk(f) ==
    \/ Mentions(f.delta.val, ErrorMessage[1])
    \/ Mentions(f.line, ErrorMessage[1])
    \/ f.frame = "error"

\* C15: in a streaming dispatch, when the entry point or its lazy sequence
\* raises after the stream has started, the stream carries an error-bearing
\* chunk that reports the exception.
C15_StreamErrorReportedAsChunk ==
    (Streaming /\ pc = "aborted") =>
        \E k \in 1..Len(out) : IsErrorChunk(out[k])

IsStructured(item) == item.type \in {"dict", "BaseModel"}

\* the item has the shape of a wire event (the status event of the
\* events pipeline)
MatchesWireEvent(item) == item = StatusEvent

\* the item is text that is already an event-stream line
IsPreFramed(item) ==
    item.type \in {"str", "bytes"} /\ item.val # <<>> /\ item.val[1] = "data:"

\* C20: in streaming mode a structured item that does not match the wire
\* event schema is wrapped into a completion chunk carrying it as the delta
\* value; only items already in wire form are passed through unwrapped.
C20_OtherStructuredItemsWrapped ==
    (Streaming /\ IsIterator(res)) =>
        \A k \in 1..pos :
            /\ (IsStructured(res.items[k]) /\ ~MatchesWireEvent(res.items[k])) =>
                   /\ out[k].frame = "chunk"
                   /\ out[k].model = form.model
                   /\ out[k].delta.val = res.items[k].val
            /\ out[k].frame = "raw" =>
                   MatchesWireEvent(res.items[k]) \/ IsPreFramed(res.items[k])

----------------------------------------------------------------------------
(* Properties of the lookup by identifier *)

ValvesAnswered == last.op \in {"get", "spec", "update"}

\* the identifier has no valves to serve: unknown, or registered without
\* a valves attribute
Unrouted(id) ==
    \/ id \notin DOMAIN PIPELINE_MODULES
    \/ ~PIPELINE_MODULES[id].hasValves

\* every request for an identifier that cannot be served was answered 404
AnsweredNotFound ==
    /\ (ValvesAnswered /\ Unrouted(last.id)) =>
           last.status = 404 /\ last.body = "error"
    /\ (pc # "request" /\ form.model \notin DOMAIN PIPELINE_MODULES) =>
           /\ response = NotFound
           /\ pc = "returned"

\* a step that answers 404 invokes nothing and changes nothing
NotFoundStepChangesNothing ==
    /\ (last' # last /\ last'.status = 404) =>
           /\ UNCHANGED <<PIPELINE_MODULES, fs, res, out, pos>>
           /\ last'.hook = "not_called"
           /\ last'.write = "none"
    /\ (response' # response /\ response' = NotFound) =>
           /\ UNCHANGED <<PIPELINE_MODULES, fs, res, out, pos, last>>
           /\ res = NoRes

\* C16: for an identifier that is not in the registry, get valves, get
\* valves spec, update valves and chat completions each answer 404, and in
\* that case no entry point or hook is invoked and no configuration object
\* or file changes; a registered plugin without valves gets 404 on the
\* three valves endpoints.
C16_UnknownIdentifierIs404 ==
    []AnsweredNotFound /\ [][NotFoundStepChangesNothing]_vars

\* the completion for ghost was answered 404 and so was an update of b,
\* which is registered without valves
C16_Witness ==
    /\ response = NotFound
    /\ form.model = "ghost"
    /\ last.op = "update"
    /\ last.id = "b"
    /\ "b" \in DOMAIN PIPELINE_MODULES
    /\ last.status = 404

----------------------------------------------------------------------------
(* Properties of the migration *)

\* C17: running the migration twice in succession leaves the same layout
\* and file contents, in the pipelines directory and in the valves
\* directory, as running it once.
C17_MigrationIdempotent ==
    mig.runs >= 2 => <<legacy, fs>> = mig.first

\* the migration ran twice over a layout in which it had a file to move
C17_Witness ==
    /\ mig.runs = 2
    /\ mig.before # <<legacy, fs>>
    /\ legacy["a"] = NoLegacyDir
    /\ fs["a"].rec = LegacyRec

----------------------------------------------------------------------------
(* Properties of hydration *)

\* the registered handles that carry a configuration
Hydrated == { id \in DOMAIN PIPELINE_MODULES : PIPELINE_MODULES[id].hasValves }
OverrideOf(id) == fs[PIPELINE_NAMES[id]]

\* every hydrated field has the value the override file literally holds
FieldsEqualOverride ==
    \A id \in Hydrated :
        /\ OverrideOf(id).file = "json"
        /\ \A k \in Fields :
               PIPELINE_MODULES[id].valves[k] =
                   IF k \in DOMAIN OverrideOf(id).rec
                   THEN OverrideOf(id).rec[k]
                   ELSE Defaults[k]

\* every hydrated field has the value of the override file as the schema
\* validates it: an integer field given the text of a number holds the number
FieldsEqualValidatedOverride ==
    \A id \in Hydrated :
        /\ OverrideOf(id).file = "json"
        /\ \A k \in Fields :
               PIPELINE_MODULES[id].valves[k] =
                   IF k \in DOMAIN OverrideOf(id).rec
                   THEN Coerce(k, OverrideOf(id).rec[k])
                   ELSE Defaults[k]

\* a registration that found no override file created one holding the empty
\* record, and the handle it registered has the defaults
AbsentFileCreatedEmpty ==
    \A n \in Names :
        (fs[n].file = "absent" /\ fs'[n].file # "absent") =>
            /\ fs'[n].file = "json"
            /\ fs'[n].rec = EmptyDict
            /\ \A id \in DOMAIN PIPELINE_MODULES' :
                   (PIPELINE_NAMES'[id] = n
                      /\ PIPELINE_MODULES'[id].hasValves
                      /\ (id \in DOMAIN PIPELINE_MODULES =>
                            PIPELINE_MODULES'[id] # PIPELINE_MODULES[id])) =>
                       PIPELINE_MODULES'[id].valves = Defaults

\* C18 as stated: hydration merges the override file over the defaults field
\* by field; a hydrated field equals the override's value when the file
\* has the field and the default otherwise; a missing file is created with
\* the empty record and the hydrated configuration is the defaults.
C18_HydratedEqualsOverrideValue ==
    []FieldsEqualOverride /\ [][AbsentFileCreatedEmpty]_vars

\* C18 amended: a hydrated field equals the override's value as converted
\* by the validation of the schema when the file has the field, and the
\* default otherwise; a missing file is created with the empty record and
\* the hydrated configuration is the defaults.
C18_HydratedEqualsValidatedOverride ==
    []FieldsEqualValidatedOverride /\ [][AbsentFileCreatedEmpty]_vars

\* a.py was hydrated from a file giving batch_size as the text "7"
C18_Witness ==
    /\ lpc = "serving"
    /\ "a" \in Hydrated
    /\ PIPELINE_NAMES["a"] = "a"
    /\ fs["a"].rec = [k \in {"batch_size"} |-> "s7"]
    /\ PIPELINE_MODULES["a"].valves = [model |-> "m0", batch_size |-> "i7"]

----------------------------------------------------------------------------
(* Properties of the dispatcher: items in wire form *)

IsWireForm(item) == MatchesWireEvent(item) \/ IsPreFramed(item)

\* the event-stream line of an item in wire form: the JSON text of the
\* event after "data:", or the text of the pre-framed line itself
WireLine(item) ==
    IF IsStructured(item) THEN <<"data:", "{">> \o item.val \o <<"}">>
    ELSE item.val

\* C21: in streaming mode an item already in wire form (an event matching
\* the wire event schema, or a line beginning with "data:" given as text or
\* bytes) is forwarded exactly once and verbatim: its frame is the raw line,
\* never a completion chunk carrying it, and no other frame repeats it.
C21_WireFormForwardedOnce ==
    (Streaming /\ IsIterator(res)) =>
        /\ \A k \in 1..pos :
               IsWireForm(res.items[k]) =>
                   /\ out[k].frame = "raw"
                   /\ out[k].line = WireLine(res.items[k])
                   /\ out[k].delta = EmptyDelta
        /\ \A w \in { res.items[k] : k \in 1..pos } :
               IsWireForm(w) =>
                   Cardinality({ k \in 1..Len(out) : out[k].line = WireLine(w) })
                     = Cardinality({ k \in 1..pos :
                                       /\ IsWireForm(res.items[k])
                                       /\ WireLine(res.items[k]) = WireLine(w) })

\* a status event, a pre-framed line in bytes and one in text were streamed
C21_Witness ==
    /\ StreamClosed
    /\ res.kind = "generator"
    /\ res.items = <<StatusEvent, PyBytes(<<"data:", "Y">>), PyStr(<<"data:", "X">>)>>
    /\ Len(out) = 5
    /\ out[2] = RawFrame(PyStr(<<"data:", "Y">>))

----------------------------------------------------------------------------
(* Properties of an update with an unknown field *)

HasUnknownField(payload) == DOMAIN payload \ Fields # {}
KnownFieldsValid(payload) ==
    \A k \in Fields \cap DOMAIN payload : Coerce(k, payload[k]) # Invalid

\* the last valves request was an update with an unknown field next to
\* valid known fields, and neither the write nor the hook failed
UnknownFieldUpdate ==
    /\ UpdateAnswered
    /\ HasUnknownField(last.payload)
    /\ Fields \cap DOMAIN last.payload # {}
    /\ KnownFieldsValid(last.payload)
    /\ last.write \notin {"open_fails", "dump_fails"}
    /\ last.hook # "raised"

\* that update succeeded, memory has the known fields of the payload and
\* the file holds the full record of memory
UnknownFieldIgnored ==
    UnknownFieldUpdate =>
        /\ last.status = 200
        /\ \A k \in Fields \cap DOMAIN last.payload :
               PIPELINE_MODULES[last.id].valves[k] = Coerce(k, last.payload[k])
        /\ UpdatedFile.file = "json"
        /\ UpdatedFile.rec = model_dump(PIPELINE_MODULES[last.id].valves)

\* a get_valves for the same plugin that follows such an update returns the
\* known fields of the payload
GetAfterUnknownFieldUpdate ==
    (UnknownFieldUpdate /\ last'.op = "get" /\ last'.id = last.id) =>
        /\ last'.status = 200
        /\ last'.body = "valves"
        /\ \A k \in Fields \cap DOMAIN last.payload :
               last'.after[k] = Coerce(k, last.payload[k])

\* C22: an update whose payload has an unknown field together with valid
\* known fields succeeds; the known fields are updated in memory, the file
\* holds the full merged record, and a following get valves returns the
\* updated known fields.
C22_UnknownFieldIsIgnored ==
    []UnknownFieldIgnored /\ [][GetAfterUnknownFieldUpdate]_vars

\* {model: "m1", batch_size: "7", extra: ...} was accepted for a
C22_Witness ==
    /\ UnknownFieldUpdate
    /\ last.id = "a"
    /\ last.payload = [model |-> "m1", batch_size |-> "s7", extra |-> "m1"]
    /\ PIPELINE_MODULES["a"].valves = [model |-> "m1", batch_size |-> "i7"]

----------------------------------------------------------------------------
(* Properties of the configuration-changed hook *)

\* the number of times the last update called on_valves_updated
HookCalls == IF last.hook = "not_called" THEN 0 ELSE 1

NewRecord == ValvesModel(last.payload).valves

\* C23: on_valves_updated is invoked exactly once per successful update,
\* only after both the configuration in memory and the override file hold
\* the new record, and never when validation or the file write failed.
C23_HookAfterPersist ==
    UpdateAnswered =>
        /\ last.status = 200 => HookCalls = 1
        /\ HookCalls <= 1
        /\ HookCalls = 1 =>
              /\ ValvesModel(last.payload).ok
              /\ last.write = "ok"
              /\ last.hook_saw.valves = NewRecord
              /\ last.hook_saw.file.file = "json"
              /\ last.hook_saw.file.rec = model_dump(NewRecord)
        /\ (~ValvesModel(last.payload).ok
              \/ last.write \in {"open_fails", "dump_fails"}) => HookCalls = 0

\* the hook ran after an update that changed the record of a
C23_Witness ==
    /\ UpdateAnswered
    /\ last.status = 200
    /\ last.hook = "returned"
    /\ last.before # last.after
    /\ last.hook_saw.file.rec = model_dump(last.after)
    /\ last.file_before.rec # model_dump(last.after)

----------------------------------------------------------------------------
(* Properties of the listing *)

\* what a listing of the handles as they are now contains
CurrentListing ==
    { [id |-> id, name |-> NameOf(PIPELINE_MODULES[id], id),
       valves |-> PIPELINE_MODULES[id].hasValves] :
        id \in DOMAIN PIPELINE_MODULES }

\* C24: every listing is recomputed from the current handles: the response
\* of get_models has exactly the identifiers registered at the time of the
\* call, each with the name and the valves flag of its handle at that time,
\* never those of an earlier snapshot; and the lookup set used by
\* chat/completions has the identifiers of the registry.
C24_ListingIsCurrent ==
    /\ (lpc = "serving" /\ last.op = "models") =>
           /\ last.status = 200
           /\ last.data = CurrentListing
    /\ (lpc = "serving" /\ last.op # "none") =>
           DOMAIN app_state_PIPELINES = DOMAIN PIPELINE_MODULES

\* a was renamed by its hook to "m1" and the listing shows that name
C24_Witness ==
    /\ lpc = "serving"
    /\ last.op = "models"
    /\ PIPELINE_MODULES["a"].display = "m1"
    /\ [id |-> "a", name |-> "m1", valves |-> TRUE] \in last.data
    /\ PIPELINES["a"].name = "m0"

----------------------------------------------------------------------------
(* Properties of the two passes *)

PipelineIdOf(e) == IF e.id_attr # "" THEN e.id_attr ELSE e.name

\* C25: when X.py and the package X/ both exist and X.py is claimed in pass
\* one, the package X/ is never imported or instantiated and the registry
\* entry for X is the standalone unit; a package is loaded in pass two only
\* when pass one did not claim its name.
C25_PassOneWins ==
    /\ \A n \in loaded_single_files :
          /\ <<n, "pkg">> \notin imported
          /\ \A id \in DOMAIN PIPELINE_MODULES :
                 PIPELINE_NAMES[id] = n => PIPELINE_MODULES[id].form = "file"
          /\ \A e \in Listed :
                 (/\ lpc \in {"hooks", "serving"}
                  /\ e.name = n /\ e.form = "file" /\ e.load = "ok"
                  /\ \A g \in LoadedUnits \ {e} : PipelineIdOf(g) # PipelineIdOf(e)) =>
                     /\ PipelineIdOf(e) \in DOMAIN PIPELINE_MODULES
                     /\ PIPELINE_MODULES[PipelineIdOf(e)].module = n
                     /\ PIPELINE_MODULES[PipelineIdOf(e)].form = "file"
    /\ \A id \in DOMAIN PIPELINE_MODULES :
          PIPELINE_MODULES[id].form = "pkg" =>
              PIPELINE_MODULES[id].module \notin loaded_single_files

\* a.py and the package a/ were both listed and startup is over
C25_Witness ==
    /\ lpc = "serving"
    /\ "a" \in loaded_single_files
    /\ \E i \in 1..Len(listing) :
          listing[i].name = "a" /\ listing[i].form = "pkg" /\ listing[i].load = "ok"
    /\ "a" \in DOMAIN PIPELINE_MODULES
    /\ PIPELINE_MODULES["a"].form = "file"

----------------------------------------------------------------------------
(* Properties of the dispatcher: structured results *)

\* the fields of a structured result: the dict itself, the dump of a model
FieldDump(v) == PyDict(v.val[1])

\* C26: in non-streaming mode, when the entry point returns a dict or a
\* schema model, the response is that object unchanged (for a model its
\* field dump): it is not wrapped in a synthetic completion and nothing is
\* added or removed.
C26_StructuredResultAsIs ==
    (NonStreamReturned /\ res.kind \in {"dict", "BaseModel"}) =>
        /\ response.body = "object"
        /\ response.object = FieldDump(res.value)
        /\ response.content = <<>>
        /\ response.finish = ""
        /\ response.model = ""

\* a schema model was returned by the entry point and answered
C26_Witness ==
    /\ NonStreamReturned
    /\ res.kind = "BaseModel"
    /\ res.value = PyModel("completion")
    /\ response.object = PyDict("completion")

----------------------------------------------------------------------------
(* Properties of the configuration as read by the entry point *)

\* the last valves request was a successful update of the plugin of the
\* completion request
UpdateReturned ==
    /\ last.op = "update"
    /\ last.status = 200
    /\ last.id = form.model

\* the text a ConfigItem gives when it is made from the new record
NewText == PyStr(<<NewRecord["model"]>>)

\* the streaming entry point produces an item after the update returned
ReadsNewWhenStreaming ==
    (UpdateReturned /\ pos' = pos + 1 /\ res.items[pos + 1] = ConfigItem) =>
        /\ Len(out') = Len(out) + 1
        /\ out'[Len(out')].frame = "chunk"
        /\ out'[Len(out')].delta = NewText

\* the non-streaming entry point is invoked after the update returned
ReadsNewWhenNotStreaming ==
    (UpdateReturned /\ pc = "request" /\ pc' = "returned" /\ ~form.stream) =>
        response'.content = NewText.val \o NewText.val

\* C27: a configuration update applies to subsequent requests: an entry
\* point invoked after update_valves has successfully returned reads the
\* new configuration values, in streaming and in non-streaming mode.
C27_UpdateAppliesToLaterRequests ==
    [][ReadsNewWhenStreaming /\ ReadsNewWhenNotStreaming]_vars

\* the model of a was changed from "m0" to "m1" and the stream that ended
\* afterwards was made with "m1"
C27_Witness ==
    /\ UpdateReturned
    /\ last.before["model"] = "m0"
    /\ last.after["model"] = "m1"
    /\ StreamClosed
    /\ out[1].delta = PyStr(<<"m1">>)
    /\ out[2].delta = PyStr(<<"m1">>)

----------------------------------------------------------------------------
(* Properties of the dispatcher: when the response is returned *)

\* the entry point has been invoked and has given a terminal value or the
\* first item of its sequence (or the end of an empty one)
FirstOutputProduced ==
    /\ res # NoRes
    /\ ~PipeRaises(res)
    /\ IsIterator(res) => (pos >= 1 \/ res.items = <<>>)

\* C28: in streaming mode the handler does not return its response until
\* the entry point has been invoked and has produced a terminal value or
\* the first item of its sequence; an entry point that raises before any
\* output gives an HTTP-level error, not a started (200) event stream.
C28_ResponseWaitsForFirstOutput ==
    /\ Streaming => FirstOutputProduced
    /\ (form.stream /\ pc = "aborted" /\ out = <<>>) => response.status >= 400

----------------------------------------------------------------------------
(* Properties of registration: hydration comes first *)

\* the configuration _register_pipeline builds from a file holding rec
MergedWith(rec) == ValvesModel(Merge(model_dump(Defaults), rec))

\* every handle of the registry that has valves holds the merge of its
\* defaults with its override file, and the file is on disk
VisibleIsHydrated ==
    \A id \in Hydrated :
        /\ OverrideOf(id).dir
        /\ OverrideOf(id).file = "json"
        /\ MergedWith(OverrideOf(id).rec).ok
        /\ PIPELINE_MODULES[id].valves = MergedWith(OverrideOf(id).rec).valves

\* the handles a step puts into the registry
MadeVisible ==
    { id \in DOMAIN PIPELINE_MODULES' :
        \/ id \notin DOMAIN PIPELINE_MODULES
        \/ PIPELINE_MODULES'[id] # PIPELINE_MODULES[id]
        \/ PIPELINE_NAMES'[id] # PIPELINE_NAMES[id] }

\* a handle enters the registry holding the merge of the defaults with the
\* file its registration read (the file that was there, or the empty record
\* the registration wrote), and a registration that fails adds no handle
VisibleOnlyOnceHydrated ==
    /\ \A id \in MadeVisible :
          LET n == PIPELINE_NAMES'[id]
          IN /\ fs'[n].dir /\ fs'[n].file = "json"
             /\ fs[n].file = "json" => fs'[n].rec = fs[n].rec
             /\ fs[n].file = "absent" => fs'[n].rec = EmptyDict
             /\ PIPELINE_MODULES'[id].hasValves =>
                   PIPELINE_MODULES'[id].valves = MergedWith(fs'[n].rec).valves
    /\ raised' # raised =>
          UNCHANGED <<PIPELINE_MODULES, PIPELINE_NAMES>>

----------------------------------------------------------------------------
(* Properties of the lifespan hooks *)

\* the positions of RegistrationOrder whose hook the running or finished
\* loop has called: those it went past, and the one whose call raised
Called(failed) ==
    { i \in 1..Len(RegistrationOrder) :
        i < idx \/ (i = idx /\ lpc = failed) }

\* the plugins that have the hook, by position
HasHook(hook) ==
    { i \in 1..Len(RegistrationOrder) :
        PIPELINE_MODULES[RegistrationOrder[i]][hook] # "none" }

StartupLoopOver == lpc \in {"serving", "startup_failed"}
ShutdownLoopOver == lpc \in {"stopped", "shutdown_failed"}

\* C30: a plugin's misbehaving lifecycle hook never brings the service
\* down: when an on_startup hook raises, startup still completes and the
\* on_startup hooks of all other registered plugins are still called, and
\* likewise for on_shutdown at shutdown.
C30_HookFailureIsContained ==
    /\ lpc # "startup_failed"
    /\ StartupLoopOver => HasHook("on_startup") \subseteq Called("startup_failed")
    /\ lpc # "shutdown_failed"
    /\ ShutdownLoopOver => HasHook("on_shutdown") \subseteq Called("shutdown_failed")

----------------------------------------------------------------------------
(* Properties of the dispatcher: an entry point that returns a string *)

\* the three frames of a string result: the chunk with the whole string as
\* its delta, the stop chunk, the sentinel
StrFrames ==
    << [frame |-> "chunk", model |-> form.model, delta |-> res.value,
        finish |-> "null", line |-> <<>>],
       [frame |-> "chunk", model |-> form.model, delta |-> EmptyDelta,
        finish |-> "stop", line |-> <<>>],
       [frame |-> "done", model |-> "", delta |-> EmptyDelta,
        finish |-> "null", line |-> <<"data:", "[DONE]">>] >>

\* C31: when the entry point of a streaming dispatch returns a plain
\* string, the stream consists of exactly three frames in order: one
\* completion chunk carrying the whole string as its delta, the terminal
\* stop chunk, and the [DONE] sentinel.
C31_StringGivesThreeFrames ==
    (Streaming /\ IsStr(res)) =>
        /\ Len(out) <= 3
        /\ out = SubSeq(StrFrames, 1, Len(out))
        /\ pc = "closed" => out = StrFrames

\* the string "A" has been streamed and the stream is closed
C31_Witness ==
    /\ StreamClosed
    /\ IsStr(res)
    /\ res.value = PyStr(<<"A">>)
    /\ Len(out) = 3

----------------------------------------------------------------------------
(* Properties of the blueprint pipeline *)

\* base_url or token is missing or empty
NoCallbackContext ==
    bp.ctx.base_url \in {"none", "empty"} \/ bp.ctx.token \in {"none", "empty"}

YieldsOf(trace) == SelectSeq(trace, LAMBDA e : e.ev = "yield")
CallsOf(trace) == SelectSeq(trace, LAMBDA e : e.ev = "call")

\* C32: when the request body carries no usable __openwebui callback
\* context (base_url or token missing or empty), pipe yields only text
\* fragments, emits no event items, performs no HTTP call, and terminates.
C32_NoCallbackDegradesGracefully ==
    NoCallbackContext =>
        /\ \A k \in 1..Len(Executed) :
              /\ Executed[k].ev # "call"
              /\ Executed[k].ev = "yield" => Executed[k].kind = "text"
        /\ Len(YieldsOf(Executed)) <= 2
        /\ bp.n >= 3 => (Exhausted /\ Executed[bp.n] = Returns)

\* a body with a base_url and an empty token, consumed to its end
C32_Witness ==
    /\ bp.ctx = [base_url |-> "url", token |-> "empty"]
    /\ Exhausted
    /\ Len(YieldsOf(Executed)) = 2

\* the status events among the items, by position
StatusAt(items, done) ==
    { k \in 1..Len(items) : items[k].kind = "status" /\ items[k].done = done }

\* C33: every run of pipe with callback context that is consumed to
\* exhaustion emits at least one status event with done=false and exactly
\* one with done=true, and the done=true event is the last item of the
\* sequence, whether or not the file listing, the model call or the
\* transcript upload fails.
C33_StatusProtocol ==
    (Usable(bp.ctx) /\ Exhausted) =>
        LET items == YieldsOf(Executed)
        IN /\ StatusAt(items, FALSE) # {}
           /\ StatusAt(items, TRUE) = {Len(items)}

\* the positions of the calls of one kind among what has been executed
CallAt(kind) ==
    { k \in 1..Len(Executed) : Executed[k].ev = "call" /\ Executed[k].kind = kind }

\* the content fragments of the model stream that were yielded: the text
\* items between the model call and position k that are a content
FragmentsBefore(k) ==
    SelectSeq(SubSeq(Executed, 1, k),
              LAMBDA e : /\ e.ev = "yield" /\ e.kind = "text"
                         /\ Len(e.text) = 1 /\ e.text[1] \in Contents)

RECURSIVE TextOf(_)
TextOf(events) ==
    IF events = <<>> THEN <<>> ELSE Head(events).text \o TextOf(Tail(events))

\* C34: every run of pipe with callback context performs exactly one
\* transcript upload, after the model stream has ended, and the uploaded
\* transcript contains the user message and the concatenation, in order,
\* of exactly the content fragments yielded to the client from the model
\* stream.
C34_OneTranscriptOfTheExchange ==
    Usable(bp.ctx) =>
        /\ Cardinality(CallAt("upload")) <= 1
        /\ Exhausted => Cardinality(CallAt("upload")) = 1
        /\ \A u \in CallAt("upload") :
              /\ \E m \in CallAt("model") : m < u
              /\ FragmentsBefore(Len(Executed)) = FragmentsBefore(u)
              /\ Executed[u].text =
                    <<"User:", "hello", "Assistant", Defaults["model"]>>
                      \o TextOf(FragmentsBefore(u))

----------------------------------------------------------------------------
(* Properties of valves updates: what an error leaves behind *)

\* C37: if update_valves responds with an error for any reason (validation
\* failure, failure while writing the override file, or an exception raised
\* by on_valves_updated), the plugin's in-memory configuration and its
\* override file are both exactly as they were before the call.
C37_ErrorLeavesNoTrace ==
    (UpdateAnswered /\ last.status # 200) =>
        /\ PIPELINE_MODULES[last.id].valves = last.before
        /\ UpdatedFile = last.file_before

----------------------------------------------------------------------------
(* Properties of update_valves calls in flight together *)

AllCallsDone == \A r \in 1..MaxCalls : calls[r].pc = "done"
Succeeded == { r \in 1..MaxCalls : calls[r].pc = "done" /\ calls[r].status = 200 }

\* C35: after any interleaving of concurrent successful update_valves calls
\* on the same plugin, once all of them have completed the content of the
\* override file equals the in-memory configuration, and both equal the
\* full record of exactly one of those updates.
C35_LastWriterWinsOnBoth ==
    (AllCallsDone /\ Succeeded = 1..MaxCalls) =>
        /\ fs[PIPELINE_NAMES["a"]].file = "json"
        /\ fs[PIPELINE_NAMES["a"]].rec = model_dump(PIPELINE_MODULES["a"].valves)
        /\ \E r \in Succeeded : PIPELINE_MODULES["a"].valves = calls[r].valves

\* two updates with different records overlapped: the first was answered
\* after the second had been applied
C35_Witness ==
    /\ AllCallsDone
    /\ Succeeded = 1..MaxCalls
    /\ calls[1].valves # calls[2].valves
    /\ calls[1].returned = calls[2].valves
    /\ PIPELINE_MODULES["a"].valves = calls[2].valves

\* C36: a successful update_valves call returns the configuration record
\* that it validated from its own payload, even when another update to the
\* same plugin is applied while its on_valves_updated hook is suspended.
C36_ReturnsOwnRecord ==
    \A r \in Succeeded : calls[r].returned = calls[r].valves

----------------------------------------------------------------------------
(* Properties of the registries as a pair *)

SameKeys == DOMAIN PIPELINE_MODULES = DOMAIN PIPELINE_NAMES

\* every identifier the membership check of generate_openai_chat_completion
\* accepts is a key of PIPELINE_MODULES
CheckedIdsResolve == DOMAIN app_state_PIPELINES \subseteq DOMAIN PIPELINE_MODULES

\* within one run of the process (epoch counts the process starts)
NoIdRemoved ==
    epoch' = epoch =>
        /\ DOMAIN PIPELINE_MODULES \subseteq DOMAIN PIPELINE_MODULES'
        /\ DOMAIN PIPELINE_NAMES \subseteq DOMAIN PIPELINE_NAMES'

\* C38: in every reachable state PIPELINE_MODULES and PIPELINE_NAMES have
\* identical key sets and no identifier is ever removed from them, so an
\* identifier that passes the membership check at the start of
\* generate_openai_chat_completion (it is a key of app.state.PIPELINES)
\* resolves to a handle whenever job() looks it up later.
C38_RegistriesGrowTogether ==
    [](SameKeys /\ CheckedIdsResolve) /\ [][NoIdRemoved]_vars

\* two identifiers registered, a request has refreshed app.state.PIPELINES
\* and the service has been through a restart
C38_Witness ==
    /\ lpc = "serving"
    /\ epoch > 0
    /\ Cardinality(DOMAIN PIPELINE_MODULES) = 2
    /\ DOMAIN app_state_PIPELINES = DOMAIN PIPELINE_MODULES

----------------------------------------------------------------------------
(* Properties of the registry against the units loaded *)

\* C39: after discovery, every unit that was successfully instantiated and
\* hydrated is resolvable in the registry, and registered handles are in
\* one-to-one correspondence with the successfully loaded units, including
\* when two units declare the same id or a unit declares an id equal to
\* another unit's filesystem name.
C39_OneHandlePerLoadedUnit ==
    (lpc \in {"hooks", "serving"}) =>
        /\ \A e \in LoadedUnits : Registered(e)
        /\ Cardinality(DOMAIN PIPELINE_MODULES) = Cardinality(LoadedUnits)

----------------------------------------------------------------------------
(* Properties of the migration: what becomes of the files *)

LegacyBefore == mig.before[1]
CentralBefore == mig.before[2]
HadCentral(n) == CentralBefore[n].dir /\ CentralBefore[n].file # "absent"
HadLegacy(n) == LegacyBefore[n].dir /\ LegacyBefore[n].valves # "absent"

\* os.makedirs raised for some entry: the loop did not reach its end
MigrationRaised ==
    \E n \in Names :
        HadLegacy(n) /\ ~CentralBefore[n].dir /\ CentralBefore[n].io = "nocreate"

\* C40: migration never loses or overwrites centralized configuration: for
\* every unit directory the loop processes, the centralized valves.json
\* afterwards is the centralized file from before the migration if there
\* was one and the legacy file otherwise, and no legacy valves.json remains
\* in a processed directory. (A run that os.makedirs ends with an exception
\* has not processed its remaining directories; it too leaves every
\* centralized file as it was.)
C40_MigrationKeepsCentral ==
    mig.runs >= 1 =>
        /\ \A n \in Names : HadCentral(n) => fs[n] = CentralBefore[n]
        /\ ~MigrationRaised =>
             \A n \in Names :
                HadLegacy(n) =>
                   /\ legacy[n].valves = "absent"
                   /\ ~HadCentral(n) =>
                        /\ fs[n].dir
                        /\ fs[n].file = LegacyBefore[n].valves
                        /\ fs[n].rec = LegacyBefore[n].rec

\* a had a legacy and a centralized file with different records, b a
\* legacy file only: a's centralized file is kept, b's legacy file moved
C40_Witness ==
    /\ mig.runs = 1
    /\ HadLegacy("a") /\ HadCentral("a")
    /\ LegacyBefore["a"].rec # CentralBefore["a"].rec
    /\ fs["a"] = CentralBefore["a"]
    /\ HadLegacy("b") /\ ~HadCentral("b")
    /\ fs["b"].rec = LegacyRec
    /\ legacy["a"].valves = "absent" /\ legacy["b"].valves = "absent"

====
